---- MODULE Spec2Model ----
(***************************************************************************)
(* Model of the Starstuck Lab content tools:                               *)
(*   site/tools/regenerate_content.py : the per-page rolling buffer of     *)
(*                                      generated text variants            *)
(*   site/tools/regenerate_images.py  : prepare_scenes, the cross-scene    *)
(*                                      variant check of images.json       *)
(***************************************************************************)
EXTENDS Integers, Naturals, Sequences, FiniteSets, TLC

VARIABLES
    \* ---- regenerate_content.py: one invocation of the script at a time ----
    file,          \* DATA_DIR/<page>.json for every page: [kind, data]
    alive,         \* a process of the script is running
    pc,            \* where the process is (or was when it was terminated)
    NUM_NEW,       \* args.num_variants of the running invocation
    target_pages,  \* pages the main loop has still to visit
    page,          \* loop variable of the main loop
    existing,      \* in-memory buffer of the current page
    current_count, \* len(existing) right after loading
    indices,       \* next_variant_indexes(...) of the current page
    vi,            \* position of the variant loop in indices (1-based)
    bi,            \* position of the prompt loop in prompts (1-based)
    page_data,     \* record of the variant under construction
    seed,          \* what distinguishes the completions of one invocation
    runsLeft,      \* invocations the environment will still start
    failsLeft,     \* generation calls the environment will still fail
    crashesLeft,   \* process terminations the environment will still cause
    snapshot,      \* history: file as it was when the invocation started
    overwrites,    \* history: per page and key, persisted wrap-phase overwrites
    \* ---- next_variant_indexes as a pure function ----
    nvi_in,        \* <<existing_len, max_variants, num_new>>
    nvi_out,       \* [done, value]
    \* ---- regenerate_images.py: one invocation of the script ----
    config,        \* images.json as load_config returns it (a value)
    configFile,    \* images.json on disk
    auto_sync,     \* args.auto_sync
    write_back,    \* args.write_back
    heap,          \* the list and dict objects of cfg, by object id
    cfg,           \* prepare_scenes' working copy: scenes refer to heap objects
    spc,           \* where the invocation is
    si,            \* position of the current scene loop (1-based)
    canonical,     \* [set, norm]: the canonical normalized list, None at first
    canonical_scene, \* key of the canonical scene, "none" for None
    error,         \* "none", or what ended the invocation
    error_ids,     \* the variant ids the error message names
    processed      \* keys of the scenes process_scene was run on, in order

\* regenerate_images.py, the steps of main on one scene
VARIABLES
    fs,            \* the files: path -> content, for the paths that exist
    fs0,           \* history: the files when the invocation started
    force,         \* --force
    args_generate, \* --generate
    args_process,  \* --process (set by main when no step is asked for)
    scene,         \* the scene: key, master ("" for no field), variants
    master_img,    \* process_scene's master_img, NoImage for None
    produced,      \* process_scene's produced dict as a sequence of <<id, path>>
    variants_sorted, \* process_scene's variants_sorted
    vpos,          \* position of the main or process_scene loop in its list
    ppc,           \* "idle", "generate", "process", "loop", "done", "exit"
    written        \* history: the paths written by this invocation, in order

\* generate_about_emblem.py
VARIABLES
    MAX_RETRIES,   \* --retries
    FORCE,         \* --force
    DRY_RUN,       \* --dry-run
    variant_keys,  \* the keys of about.json, sorted as integers
    emblems,       \* the emblem files: key -> content, for the files that exist
    emblems0,      \* history: the emblem files when the invocation started
    to_generate,   \* the keys the main loop goes through
    ei,            \* position of the main loop in to_generate
    attempt,       \* the attempt about to be made for the current key
    png_bytes,     \* the image held for the current key, NoBytes for None
    last_error,    \* "none" for None
    epc,           \* "idle", "select", "attempts", "save", "done"
    calls,         \* history: key -> number of image-generation calls
    verdicts       \* history: key -> outcome of its last attempt

\* regenerate_images.py: one call of crop_center_to_aspect
VARIABLES
    crop_in,       \* <<src_w, src_h, target_w, target_h, centered>>
    crop_out       \* done, copied (line 79), the crop box, the outcome and its size

bufVars == <<file, alive, pc, NUM_NEW, target_pages, page, existing, current_count,
             indices, vi, bi, page_data, seed, runsLeft, failsLeft, crashesLeft,
             snapshot, overwrites>>
idxVars == <<nvi_in, nvi_out>>
cropVars == <<crop_in, crop_out>>
sceneVars == <<config, configFile, auto_sync, write_back, heap, cfg, spc, si,
               canonical, canonical_scene, error, error_ids, processed>>
procVars == <<fs, fs0, force, args_generate, args_process, scene, master_img,
              produced, variants_sorted, vpos, ppc, written>>
emblemVars == <<MAX_RETRIES, FORCE, DRY_RUN, variant_keys, emblems, emblems0,
                to_generate, ei, attempt, png_bytes, last_error, epc, calls,
                verdicts>>

\* ---------------------------------------------------------------------------
\* Program constants
\* ---------------------------------------------------------------------------
MAX_VARIANTS == 20
DEFAULT_NUM_VARIANTS == 5

\* ---------------------------------------------------------------------------
\* Bounds of the model
\* ---------------------------------------------------------------------------
MaxRuns == 3        \* invocations of regenerate_content.py in one behaviour
NumSmall == 3       \* a small --num-variants
NumHalf == 10       \* a --num-variants of about half the capacity
MaxCrash == 1       \* process terminations in one behaviour of Spec
MaxLenIdx == 23     \* largest existing_len given to next_variant_indexes
MaxNewIdx == 4      \* largest num_new given to next_variant_indexes (small caps)
MaxScenes == 3      \* scenes in images.json

\* --num-variants values the invocations are started with
NumNewChoices == {0, NumSmall, NumHalf, MAX_VARIANTS + 1}

\* ---------------------------------------------------------------------------
\* Data loaded at start-up
\* ---------------------------------------------------------------------------
Pages == {"about", "hero"}

\* src/data/about.json and src/data/hero.json: the prompt blocks of each page
prompts_by_page ==
    [about |-> << [id |-> "about-intro", block |-> "intro",
                   public_json_key |-> "intro", prompt |-> "p1"],
                  [id |-> "about-body", block |-> "body",
                   public_json_key |-> "body", prompt |-> "p2"],
                  [id |-> "about-outro", block |-> "outro",
                   public_json_key |-> "outro", prompt |-> "p3"] >>,
     hero  |-> << [block |-> "tagline",
                   public_json_key |-> "tagline", prompt |-> "p4"] >>]

\* p.get("id", "unknown-id")
PromptId(p) == IF "id" \in DOMAIN p THEN p.id ELSE "unknown-id"

BlockKeys(pg) == {prompts_by_page[pg][i].public_json_key :
                      i \in 1..Len(prompts_by_page[pg])}

\* ---------------------------------------------------------------------------
\* Helpers
\* ---------------------------------------------------------------------------
EmptyMap == [k \in {} |-> ""]

\* d[k] = v on a Python dict
Put(d, k, v) == [x \in (DOMAIN d) \cup {k} |-> IF x = k THEN v ELSE d[x]]

\* str(idx)
Str(n) == ToString(n)

AbsentFile == [kind |-> "absent", data |-> EmptyMap]
BrokenFile == [kind |-> "unparsable", data |-> EmptyMap]
JsonFile(d) == [kind |-> "json", data |-> d]

\* lines 434-440: the buffer a page starts with
LoadBuffer(f) == IF f.kind = "json" THEN f.data ELSE EmptyMap

\* The text the completion API returns for one call, after .strip()
Completion(sd, key, pid) == "text " \o ToString(sd) \o "/" \o key \o "/" \o pid

\* f"(generation error for {pid})"
Placeholder(pid) == "(generation error for " \o pid \o ")"

\* A mutant of next_variant_indexes: the append phase starts one key too far
NextIndexesFromTwo(existing_len, max_variants, num_new) ==
    IF existing_len < max_variants
    THEN [j \in 1..num_new |-> (existing_len + 2) + (j - 1)]
    ELSE [j \in 1..num_new |-> (j % max_variants) + 1]

\* A mutant of next_variant_indexes: append-phase keys are clamped to the capacity
NextIndexesClamped(existing_len, max_variants, num_new) ==
    IF existing_len < max_variants
    THEN [j \in 1..num_new |->
            IF (existing_len + 1) + (j - 1) > max_variants
            THEN max_variants ELSE (existing_len + 1) + (j - 1)]
    ELSE [j \in 1..num_new |-> (j % max_variants) + 1]

\* A mutant of next_variant_indexes: the wrap phase iterates once too often
NextIndexesOneMore(existing_len, max_variants, num_new) ==
    IF existing_len < max_variants
    THEN [j \in 1..num_new |-> (existing_len + 1) + (j - 1)]
    ELSE [j \in 1..(num_new + 1) |-> (j % max_variants) + 1]

\* A mutant of next_variant_indexes: the wrap phase counts on without a modulo
NextIndexesNoModulo(existing_len, max_variants, num_new) ==
    IF existing_len < max_variants
    THEN [j \in 1..num_new |-> (existing_len + 1) + (j - 1)]
    ELSE [j \in 1..num_new |-> j + 1]

\* A mutant of next_variant_indexes: a full buffer is appended to as well
NextIndexesAlwaysAppend(existing_len, max_variants, num_new) ==
    [j \in 1..num_new |-> (existing_len + 1) + (j - 1)]

\* A mutant of next_variant_indexes: one modulo formula for both phases
NextIndexesModulo(existing_len, max_variants, num_new) ==
    [j \in 1..num_new |-> ((existing_len + j - 1) % max_variants) + 1]

\* lines 413-417 (j - 1 is range(num_new)'s i; j is range(1, num_new + 1)'s i)
next_variant_indexes(existing_len, max_variants, num_new) ==
    IF existing_len < max_variants
    THEN [j \in 1..num_new |-> (existing_len + 1) + (j - 1)]
    ELSE [j \in 1..num_new |-> (j % max_variants) + 1]

\* A mutant of output_path: every page is kept in the first page's file
OutputPathShared(pg) == "about"

\* line 431: output_path = DATA_DIR / f"{page}.json", named by its page
output_path(pg) == pg

\* lines 390-404
TargetPagesOf(t) ==
    IF t = "all" THEN <<"about", "hero", "products">> ELSE <<t>>

\* ---------------------------------------------------------------------------
\* regenerate_content.py: the main loop, one action per step
\* ---------------------------------------------------------------------------
Prompts == prompts_by_page[page]
CurKey == Str(indices[vi])
Count(m, k) == IF k \in DOMAIN m THEN m[k] ELSE 0
WrittenKeys == {Str(indices[i]) : i \in 1..Len(indices)}

\* lines 345-410: the script starts, parses its arguments, builds target_pages
StartRun(t, n) ==
    /\ ~alive
    /\ runsLeft > 0
    /\ alive' = TRUE
    /\ pc' = "page_loop"
    /\ NUM_NEW' = n
    /\ target_pages' = TargetPagesOf(t)
    /\ page' = "none"
    /\ existing' = EmptyMap
    /\ current_count' = 0
    /\ indices' = <<>>
    /\ vi' = 1
    /\ bi' = 1
    /\ page_data' = EmptyMap
    /\ seed' = seed + 1
    /\ runsLeft' = runsLeft - 1
    /\ snapshot' = file
    /\ UNCHANGED <<file, failsLeft, crashesLeft, overwrites>>

\* A mutant of AliveAfterLoad: the parse error of json.loads is not caught
AliveAfterLoadUncaught(f) == f.kind # "unparsable"

\* lines 435-440: a missing file takes the else branch, a parse error is caught
AliveAfterLoad(f) == TRUE

\* lines 430-445: load the page's buffer and compute the keys of this run
LoadPage ==
    /\ alive
    /\ pc = "page_loop"
    /\ target_pages # <<>>
    /\ Head(target_pages) \in Pages
    /\ page' = Head(target_pages)
    /\ target_pages' = Tail(target_pages)
    /\ existing' = LoadBuffer(file[output_path(page')])
    /\ current_count' = Cardinality(DOMAIN existing')
    /\ indices' = next_variant_indexes(current_count', MAX_VARIANTS, NUM_NEW)
    /\ vi' = 1
    /\ bi' = 1
    /\ page_data' = EmptyMap
    /\ pc' = "gen"
    /\ alive' = AliveAfterLoad(file[output_path(page')])
    /\ UNCHANGED <<file, NUM_NEW, seed, runsLeft, failsLeft, crashesLeft,
                   snapshot, overwrites>>

\* A mutant of OnGenerationError: the failed block gets no entry
OnGenerationErrorNoEntry(pd, p) == pd

\* line 494: the except branch of one generation call
OnGenerationError(pd, p) == Put(pd, p.public_json_key, Placeholder(PromptId(p)))

\* lines 490-491: the try branch of one generation call
OnGenerationOk(pd, p, key) ==
    Put(pd, p.public_json_key, Completion(seed, key, PromptId(p)))

\* lines 451-491: one prompt block of the current variant, the call succeeds
GenBlockOk ==
    /\ alive
    /\ pc = "gen"
    /\ vi <= Len(indices)
    /\ bi <= Len(Prompts)
    /\ page_data' = OnGenerationOk(page_data, Prompts[bi], CurKey)
    /\ bi' = bi + 1
    /\ UNCHANGED <<file, alive, pc, NUM_NEW, target_pages, page, existing,
                   current_count, indices, vi, seed, runsLeft, failsLeft,
                   crashesLeft, snapshot, overwrites>>

\* A mutant of AliveAfterGenerationError: the exception is not caught
DeadAfterGenerationError == FALSE

\* what an exception of the generation call does to the process (lines 481-494:
\* it is caught, the process goes on)
AliveAfterGenerationError == TRUE

\* lines 451-494: one prompt block of the current variant, the call raises
GenBlockError ==
    /\ alive
    /\ pc = "gen"
    /\ vi <= Len(indices)
    /\ bi <= Len(Prompts)
    /\ failsLeft > 0
    /\ failsLeft' = failsLeft - 1
    /\ alive' = AliveAfterGenerationError
    /\ page_data' = OnGenerationError(page_data, Prompts[bi])
    /\ bi' = bi + 1
    /\ UNCHANGED <<file, pc, NUM_NEW, target_pages, page, existing,
                   current_count, indices, vi, seed, runsLeft,
                   crashesLeft, snapshot, overwrites>>

\* A mutant of FileAfterStore: the buffer is written after every variant
FileAfterStoreEager(f, pg, ex) == [f EXCEPT ![pg] = JsonFile(ex)]

\* what storing one finished variant does to the page's file (line 496: nothing)
FileAfterStore(f, pg, ex) == f

\* lines 496-497: existing[key] = page_data
StoreVariant ==
    /\ alive
    /\ pc = "gen"
    /\ vi <= Len(indices)
    /\ bi > Len(Prompts)
    /\ existing' = Put(existing, CurKey, page_data)
    /\ file' = FileAfterStore(file, page, existing')
    /\ vi' = vi + 1
    /\ bi' = 1
    /\ page_data' = EmptyMap
    /\ UNCHANGED <<alive, pc, NUM_NEW, target_pages, page, current_count, indices,
                   seed, runsLeft, failsLeft, crashesLeft, snapshot, overwrites>>

\* lines 499-500: write_text opens the file for writing, which truncates it
PersistOpen ==
    /\ alive
    /\ pc = "gen"
    /\ vi > Len(indices)
    /\ file' = [file EXCEPT ![output_path(page)] = BrokenFile]
    /\ pc' = "write"
    /\ UNCHANGED <<alive, NUM_NEW, target_pages, page, existing, current_count,
                   indices, vi, bi, page_data, seed, runsLeft, failsLeft,
                   crashesLeft, snapshot, overwrites>>

\* history of the wrap-phase overwrites a persisted run made
OverwritesAfter(ow) ==
    IF current_count >= MAX_VARIANTS
    THEN [k \in (DOMAIN ow) \cup WrittenKeys |->
              Count(ow, k) + (IF k \in WrittenKeys THEN 1 ELSE 0)]
    ELSE EmptyMap

\* line 500: the whole buffer is written and the file closed
PersistWrite ==
    /\ alive
    /\ pc = "write"
    /\ file' = [file EXCEPT ![output_path(page)] = JsonFile(existing)]
    /\ overwrites' = [overwrites EXCEPT ![page] = OverwritesAfter(@)]
    /\ pc' = "page_loop"
    /\ UNCHANGED <<alive, NUM_NEW, target_pages, page, existing, current_count,
                   indices, vi, bi, page_data, seed, runsLeft, failsLeft,
                   crashesLeft, snapshot>>

\* lines 421-424: the "products" entry of target_pages; regen_products writes
\* files under public/data/products/ only (lines 297-299), no page buffer
RegenProducts ==
    /\ alive
    /\ pc = "page_loop"
    /\ target_pages # <<>>
    /\ Head(target_pages) = "products"
    /\ page' = "products"
    /\ target_pages' = Tail(target_pages)
    /\ UNCHANGED <<file, alive, pc, NUM_NEW, existing, current_count, indices, vi,
                   bi, page_data, seed, runsLeft, failsLeft, crashesLeft,
                   snapshot, overwrites>>

\* line 504: the main loop is over, the process exits
FinishRun ==
    /\ alive
    /\ pc = "page_loop"
    /\ target_pages = <<>>
    /\ pc' = "done"
    /\ alive' = FALSE
    /\ UNCHANGED <<file, NUM_NEW, target_pages, page, existing, current_count,
                   indices, vi, bi, page_data, seed, runsLeft, failsLeft,
                   crashesLeft, snapshot, overwrites>>

\* the process is terminated from outside; its memory is lost, files stay
Crash ==
    /\ alive
    /\ crashesLeft > 0
    /\ crashesLeft' = crashesLeft - 1
    /\ alive' = FALSE
    /\ UNCHANGED <<file, pc, NUM_NEW, target_pages, page, existing, current_count,
                   indices, vi, bi, page_data, seed, runsLeft, failsLeft,
                   snapshot, overwrites>>

\* ---------------------------------------------------------------------------
\* regenerate_images.py: images.json and the objects prepare_scenes works on
\* ---------------------------------------------------------------------------
\* line 51: the fields _normalize_variant keeps
NormKeys == {"id", "type", "width", "height", "aspect", "centered", "filename",
             "prompt_file", "steps", "guidance", "quality"}

\* A mutant of normalize_variant: every field of the variant is compared
NormalizeKeepsAll(v) == v

\* lines 49-52: _normalize_variant
normalize_variant(v) == [k \in NormKeys \cap DOMAIN v |-> v[k]]

\* line 174: norm = [_normalize_variant(v) for v in vlist]
NormList(vlist) == [i \in 1..Len(vlist) |-> normalize_variant(vlist[i])]

\* A mutant of DupIds: an id counts as repeated from its third occurrence on
DupIdsFromThird(vlist) ==
    {vlist[i].id : i \in {n \in 1..Len(vlist) :
        Cardinality({j \in 1..Len(vlist) : vlist[j].id = vlist[n].id}) > 2}}

\* lines 55-56: dup = {x for x in ids if ids.count(x) > 1}
DupIds(vlist) ==
    {vlist[i].id : i \in {n \in 1..Len(vlist) :
        Cardinality({j \in 1..Len(vlist) : vlist[j].id = vlist[n].id}) > 1}}

\* lines 54-58: _validate_unique_ids raises iff some id occurs more than once
HasDuplicateIds(vlist) == DupIds(vlist) # {}

\* Variant specs and variant lists the manifests of the model are built from
VarA == [id |-> "a", type |-> "crop", width |-> 100, height |-> 50]
VarANote == [id |-> "a", type |-> "crop", width |-> 100, height |-> 50, note |-> "x"]
VarAWide == [id |-> "a", type |-> "crop", width |-> 200, height |-> 50]
VarB == [id |-> "b", type |-> "resize", width |-> 100, height |-> 50]

InlineLists == { <<VarA, VarB>>, <<VarANote, VarB>>, <<VarAWide, VarB>>,
                 <<VarB, VarA>>, <<VarA, VarA>> }

\* the "variants" field of a scene: a list, the string "shared_variants", or no field
VariantsChoices ==
    {[kind |-> "list", items |-> l] : l \in InlineLists}
    \cup {[kind |-> "marker", items |-> <<>>], [kind |-> "absent", items |-> <<>>]}

\* the manifest's "shared_variants": no field, an empty list, or a list
SharedChoices ==
    {[present |-> FALSE, items |-> <<>>], [present |-> TRUE, items |-> <<>>],
     [present |-> TRUE, items |-> <<VarANote, VarB>>]}

SceneKeys == <<"hero", "about", "shop", "blog", "press">>

\* every images.json of the model with n scenes
ConfigsOf(n) ==
    {[shared |-> sh,
      scenes |-> [i \in 1..n |-> [key |-> SceneKeys[i],
                                  master |-> SceneKeys[i] \o ".png",
                                  variants |-> vs[i]]]] :
        sh \in SharedChoices, vs \in [1..n -> VariantsChoices]}

\* objects of the heap
DictObj(v) == [tag |-> "dict", val |-> v, items |-> <<>>]
ListObj(refs) == [tag |-> "list", val |-> EmptyMap, items |-> refs]

\* a new list object with new dict objects holding the given variants
AllocList(h, vlist) ==
    LET n == Len(vlist)
    IN  [heap |-> h \o [i \in 1..n |-> DictObj(vlist[i])]
                    \o << ListObj([i \in 1..n |-> Len(h) + i]) >>,
         ref |-> Len(h) + n + 1]

\* the variants a list object holds, as a value
ListValue(h, ref) == [i \in 1..Len(h[ref].items) |-> h[h[ref].items[i]].val]

\* A mutant of DeepCopyList: the list object itself is assigned, not a copy
AliasList(h, ref) == [heap |-> h, ref |-> ref]

\* A mutant of DeepCopyList: a new list that holds the same dict objects
ShallowCopyList(h, ref) ==
    [heap |-> h \o << ListObj(h[ref].items) >>, ref |-> Len(h) + 1]

\* copy.deepcopy of a list of dicts (lines 165, 183)
DeepCopyList(h, ref) == AllocList(h, ListValue(h, ref))

SceneIdle ==
    /\ config = [shared |-> [present |-> FALSE, items |-> <<>>], scenes |-> <<>>]
    /\ configFile = config
    /\ auto_sync = FALSE
    /\ write_back = FALSE
    /\ heap = <<>>
    /\ cfg = [shared |-> 0, scenes |-> <<>>]
    /\ spc = "idle"
    /\ si = 1
    /\ canonical = [set |-> FALSE, norm |-> <<>>]
    /\ canonical_scene = "none"
    /\ error = "none"
    /\ error_ids = {}
    /\ processed = <<>>

\* an image: its size and what it shows; NoImage stands for None
NoImage == [w |-> 0, h |-> 0, px |-> "none"]

\* regenerate_images.py is not processing a scene
ProcIdle ==
    /\ fs = EmptyMap
    /\ fs0 = EmptyMap
    /\ force = FALSE
    /\ args_generate = FALSE
    /\ args_process = FALSE
    /\ scene = [key |-> "none", master |-> "", variants |-> <<>>]
    /\ master_img = NoImage
    /\ produced = <<>>
    /\ variants_sorted = <<>>
    /\ vpos = 1
    /\ ppc = "idle"
    /\ written = <<>>

\* image bytes held in memory; NoBytes stands for None
NoBytes == "none"

\* generate_about_emblem.py is not running
EmblemIdle ==
    /\ MAX_RETRIES = 0
    /\ FORCE = FALSE
    /\ DRY_RUN = FALSE
    /\ variant_keys = <<>>
    /\ emblems = EmptyMap
    /\ emblems0 = EmptyMap
    /\ to_generate = <<>>
    /\ ei = 1
    /\ attempt = 1
    /\ png_bytes = NoBytes
    /\ last_error = "none"
    /\ epc = "idle"
    /\ calls = EmptyMap
    /\ verdicts = EmptyMap

\* ---------------------------------------------------------------------------
\* Spec: invocations for page "about", from an empty or absent buffer file;
\* every generation call succeeds, the process may be terminated at any step
\* ---------------------------------------------------------------------------
IdxIdle ==
    /\ nvi_in = <<0, 1, 0>>
    /\ nvi_out = [done |-> FALSE, value |-> <<>>]

\* no call of crop_center_to_aspect under study
NoBox == [left |-> 0, upper |-> 0, right |-> 0, lower |-> 0]
NoCrop == [done |-> FALSE, copied |-> FALSE, box |-> NoBox, result |-> "none",
           w |-> 0, h |-> 0]
CropIdle ==
    /\ crop_in = <<1, 1, 1, 1, TRUE>>
    /\ crop_out = NoCrop

BufInit(runs, fails, crashes) ==
    /\ file \in [Pages -> {AbsentFile, JsonFile(EmptyMap)}]
    /\ alive = FALSE
    /\ pc = "idle"
    /\ NUM_NEW = 0
    /\ target_pages = <<>>
    /\ page = "none"
    /\ existing = EmptyMap
    /\ current_count = 0
    /\ indices = <<>>
    /\ vi = 1
    /\ bi = 1
    /\ page_data = EmptyMap
    /\ seed = 0
    /\ runsLeft = runs
    /\ failsLeft = fails
    /\ crashesLeft = crashes
    /\ snapshot = file
    /\ overwrites = [p \in Pages |-> EmptyMap]

Init ==
    /\ BufInit(MaxRuns, 0, MaxCrash)
    /\ file["hero"] = AbsentFile
    /\ IdxIdle
    /\ CropIdle
    /\ SceneIdle
    /\ ProcIdle
    /\ EmblemIdle

Next ==
    \/ \E n \in NumNewChoices : StartRun("about", n) /\ UNCHANGED <<idxVars, cropVars, sceneVars, procVars, emblemVars>>
    \/ LoadPage /\ UNCHANGED <<idxVars, cropVars, sceneVars, procVars, emblemVars>>
    \/ GenBlockOk /\ UNCHANGED <<idxVars, cropVars, sceneVars, procVars, emblemVars>>
    \/ StoreVariant /\ UNCHANGED <<idxVars, cropVars, sceneVars, procVars, emblemVars>>
    \/ PersistOpen /\ UNCHANGED <<idxVars, cropVars, sceneVars, procVars, emblemVars>>
    \/ PersistWrite /\ UNCHANGED <<idxVars, cropVars, sceneVars, procVars, emblemVars>>
    \/ FinishRun /\ UNCHANGED <<idxVars, cropVars, sceneVars, procVars, emblemVars>>
    \/ Crash /\ UNCHANGED <<idxVars, cropVars, sceneVars, procVars, emblemVars>>

vars == <<bufVars, idxVars, cropVars, sceneVars, procVars, emblemVars>>

Spec == Init /\ [][Next]_vars

\* ---------------------------------------------------------------------------
\* SpecPages: invocations for one page or for all pages, from empty or absent
\* buffer files; the process may be terminated at any step
\* ---------------------------------------------------------------------------
MaxPageRuns == 2
TargetChoices == Pages \cup {"all"}

InitPages ==
    /\ BufInit(MaxPageRuns, 0, MaxCrash)
    /\ IdxIdle
    /\ CropIdle
    /\ SceneIdle
    /\ ProcIdle
    /\ EmblemIdle

NextPages ==
    \/ \E t \in TargetChoices : StartRun(t, NumSmall) /\ UNCHANGED <<idxVars, cropVars, sceneVars, procVars, emblemVars>>
    \/ LoadPage /\ UNCHANGED <<idxVars, cropVars, sceneVars, procVars, emblemVars>>
    \/ GenBlockOk /\ UNCHANGED <<idxVars, cropVars, sceneVars, procVars, emblemVars>>
    \/ StoreVariant /\ UNCHANGED <<idxVars, cropVars, sceneVars, procVars, emblemVars>>
    \/ PersistOpen /\ UNCHANGED <<idxVars, cropVars, sceneVars, procVars, emblemVars>>
    \/ PersistWrite /\ UNCHANGED <<idxVars, cropVars, sceneVars, procVars, emblemVars>>
    \/ RegenProducts /\ UNCHANGED <<idxVars, cropVars, sceneVars, procVars, emblemVars>>
    \/ FinishRun /\ UNCHANGED <<idxVars, cropVars, sceneVars, procVars, emblemVars>>
    \/ Crash /\ UNCHANGED <<idxVars, cropVars, sceneVars, procVars, emblemVars>>

SpecPages == InitPages /\ [][NextPages]_vars

\* ---------------------------------------------------------------------------
\* SpecGen: one invocation with the default --num-variants on one page, from an
\* empty or absent buffer file; any subset of the generation calls fails
\* ---------------------------------------------------------------------------
GenCalls == DEFAULT_NUM_VARIANTS * Len(prompts_by_page["about"])

InitGen ==
    /\ BufInit(1, GenCalls, 0)
    /\ \E f \in {AbsentFile, JsonFile(EmptyMap)} : file = [p \in Pages |-> f]
    /\ IdxIdle
    /\ CropIdle
    /\ SceneIdle
    /\ ProcIdle
    /\ EmblemIdle

NextGen ==
    \/ \E t \in Pages : StartRun(t, DEFAULT_NUM_VARIANTS) /\ UNCHANGED <<idxVars, cropVars, sceneVars, procVars, emblemVars>>
    \/ LoadPage /\ UNCHANGED <<idxVars, cropVars, sceneVars, procVars, emblemVars>>
    \/ GenBlockOk /\ UNCHANGED <<idxVars, cropVars, sceneVars, procVars, emblemVars>>
    \/ GenBlockError /\ UNCHANGED <<idxVars, cropVars, sceneVars, procVars, emblemVars>>
    \/ StoreVariant /\ UNCHANGED <<idxVars, cropVars, sceneVars, procVars, emblemVars>>
    \/ PersistOpen /\ UNCHANGED <<idxVars, cropVars, sceneVars, procVars, emblemVars>>
    \/ PersistWrite /\ UNCHANGED <<idxVars, cropVars, sceneVars, procVars, emblemVars>>
    \/ FinishRun /\ UNCHANGED <<idxVars, cropVars, sceneVars, procVars, emblemVars>>

SpecGen == InitGen /\ [][NextGen]_vars

\* ---------------------------------------------------------------------------
\* SpecIdx: next_variant_indexes applied to every input within the bounds
\* ---------------------------------------------------------------------------
CapChoices == {1, 2, 3, MAX_VARIANTS}

BufIdle ==
    /\ BufInit(0, 0, 0)
    /\ file = [p \in Pages |-> AbsentFile]

InitIdx ==
    /\ BufIdle
    /\ CropIdle
    /\ SceneIdle
    /\ ProcIdle
    /\ EmblemIdle
    /\ nvi_in \in (0..MaxLenIdx) \X CapChoices \X (0..MaxNewIdx)
    /\ nvi_out = [done |-> FALSE, value |-> <<>>]

ApplyIdx ==
    /\ ~nvi_out.done
    /\ nvi_out' = [done |-> TRUE,
                   value |-> next_variant_indexes(nvi_in[1], nvi_in[2], nvi_in[3])]
    /\ UNCHANGED <<nvi_in, bufVars, cropVars, sceneVars, procVars, emblemVars>>

NextIdx == ApplyIdx

SpecIdx == InitIdx /\ [][NextIdx]_vars

\* ---------------------------------------------------------------------------
\* Claims about the rolling buffer
\* ---------------------------------------------------------------------------
Persisted(p) == LoadBuffer(file[p])
KeyCount(p) == Cardinality(DOMAIN Persisted(p))
KeysUpTo(n) == {Str(i) : i \in 1..n}

\* C1: starting from an empty or absent buffer file, after any sequence of runs
\* the persisted buffer of a page never holds more than MAX_VARIANTS keys.
C1_NeverExceedsCapacity == \A p \in Pages : KeyCount(p) <= MAX_VARIANTS

\* C2: in the wrap phase (existing_len >= max_variants) next_variant_indexes
\* returns [1, 2, ..., num_new] for every 1 <= num_new <= max_variants.
C2_WrapRestartsAtOne ==
    (/\ nvi_out.done
     /\ nvi_in[1] >= nvi_in[2]
     /\ 1 <= nvi_in[3]
     /\ nvi_in[3] <= nvi_in[2])
    => nvi_out.value = [j \in 1..nvi_in[3] |-> j]

\* C21: in the wrap phase (existing_len >= max_variants) next_variant_indexes
\* returns num_new keys, the i-th being (i mod max_variants) + 1, so every key
\* lies in 1..max_variants, also for num_new > max_variants.
C21_WrapPhaseFormula ==
    (nvi_out.done /\ nvi_in[1] >= nvi_in[2])
    => /\ Len(nvi_out.value) = nvi_in[3]
       /\ \A i \in 1..nvi_in[3] :
             /\ nvi_out.value[i] = (i % nvi_in[2]) + 1
             /\ nvi_out.value[i] \in 1..nvi_in[2]

\* next_variant_indexes(3, 3, 4) has returned [2, 3, 1, 2]
C21_Witness ==
    /\ nvi_out.done
    /\ nvi_in = <<3, 3, 4>>
    /\ nvi_out.value = <<2, 3, 1, 2>>

\* C15: in the append phase (existing_len < max_variants) next_variant_indexes
\* returns exactly [existing_len + 1, ..., existing_len + num_new], also where
\* these keys exceed max_variants.
C15_AppendPhaseUnclamped ==
    (nvi_out.done /\ nvi_in[1] < nvi_in[2])
    => /\ Len(nvi_out.value) = nvi_in[3]
       /\ \A j \in 1..nvi_in[3] : nvi_out.value[j] = nvi_in[1] + j

\* next_variant_indexes(3, 20, 2) has returned [4, 5]
C15_Witness ==
    /\ nvi_out.done
    /\ nvi_in = <<3, MAX_VARIANTS, 2>>
    /\ nvi_out.value = <<4, 5>>

\* C16: with num_new = 0 next_variant_indexes returns the empty list, in the
\* append phase and in the wrap phase.
C16_ZeroNewIsEmpty ==
    (nvi_out.done /\ nvi_in[3] = 0) => nvi_out.value = <<>>

\* next_variant_indexes(20, 20, 0) has returned []
C16_Witness ==
    /\ nvi_out.done
    /\ nvi_in = <<MAX_VARIANTS, MAX_VARIANTS, 0>>
    /\ nvi_out.value = <<>>

\* C3: in a sequence of wrap-phase runs every key in 1..MAX_VARIANTS is
\* overwritten before any key is overwritten a second time.
C3_RoundRobinOverwrite ==
    \A p \in Pages :
        (\E k \in DOMAIN overwrites[p] : overwrites[p][k] >= 2)
        => \A i \in 1..MAX_VARIANTS : Count(overwrites[p], Str(i)) >= 1

\* C4: starting from an empty buffer, the keys of the persisted buffer are
\* exactly the decimal strings of 1..n, n the number of keys: no gap, no key
\* below 1, before and after the buffer is full.
C4_KeysContiguous ==
    \A p \in Pages : DOMAIN Persisted(p) = KeysUpTo(KeyCount(p))

\* the buffer is past full and a wrap-phase run has been persisted on top of it
C4_Witness ==
    /\ pc = "done"
    /\ KeyCount("about") >= MAX_VARIANTS
    /\ DOMAIN overwrites["about"] # {}

\* C5: the page's file changes only in the write that follows the last
\* generation of the run, so while the generations run, and after a
\* termination before the write, the file is what it was when the run started.
C5_PersistOnlyAtEnd ==
    /\ [](pc = "gen" => file[page] = snapshot[page])
    /\ [][\A p \in Pages :
            file'[p] # file[p]
            => /\ alive
               /\ p = page
               /\ \/ pc = "gen" /\ vi > Len(indices)
                  \/ pc = "write"]_vars

\* the process was terminated after it had stored a variant in memory and
\* before the write: the file is the one the run started with
C5_Witness ==
    /\ ~alive
    /\ pc = "gen"
    /\ vi > 1
    /\ DOMAIN existing # DOMAIN Persisted(page)
    /\ file = snapshot

\* C17: loading the buffer never ends the run: when the page's file is missing
\* or cannot be parsed the run starts from the empty buffer, plans the keys
\* 1..NUM_NEW, and a run that reaches its end has persisted exactly these keys.
C17_LoadNeverFails ==
    /\ [][(pc = "page_loop" /\ pc' = "gen") => alive']_vars
    /\ []((pc \in {"gen", "write", "done"} /\ snapshot[page].kind # "json")
           => /\ current_count = 0
              /\ indices = [j \in 1..NUM_NEW |-> j]
              /\ pc = "done" => /\ file[page].kind = "json"
                                /\ DOMAIN file[page].data = KeysUpTo(NUM_NEW))

\* a run that found an unparsable file has finished and persisted new variants
C17_Witness ==
    /\ pc = "done"
    /\ snapshot[page].kind = "unparsable"
    /\ NUM_NEW > 0
    /\ file[page].kind = "json"
    /\ DOMAIN file[page].data = KeysUpTo(NUM_NEW)

\* C20: a run that finds fewer than MAX_VARIANTS keys and is asked for more
\* new variants than fit below the capacity plans the keys current_count + 1
\* .. current_count + NUM_NEW as they are, so some key exceeds MAX_VARIANTS
\* and the persisted buffer grows past the capacity; a run that finds
\* MAX_VARIANTS keys or more plans only keys in 1..MAX_VARIANTS and persists
\* the key set it found.
C20_AppendThenWrap ==
    (pc \in {"gen", "write", "done"})
    => /\ current_count = Cardinality(DOMAIN LoadBuffer(snapshot[page]))
       /\ (current_count < MAX_VARIANTS /\ current_count + NUM_NEW > MAX_VARIANTS)
          => /\ indices = [j \in 1..NUM_NEW |-> current_count + j]
             /\ \E j \in 1..Len(indices) : indices[j] > MAX_VARIANTS
             /\ pc = "done"
                => /\ DOMAIN Persisted(page) = KeysUpTo(current_count + NUM_NEW)
                   /\ KeyCount(page) > MAX_VARIANTS
       /\ current_count >= MAX_VARIANTS
          => /\ \A j \in 1..Len(indices) : indices[j] \in 1..MAX_VARIANTS
             /\ pc = "done"
                => DOMAIN Persisted(page) = DOMAIN LoadBuffer(snapshot[page])

\* a run on a buffer that an earlier run had grown past the capacity has
\* finished: it rewrote keys and the buffer has the size it had
C20_Witness ==
    /\ pc = "done"
    /\ current_count > MAX_VARIANTS
    /\ NUM_NEW > 0
    /\ file[page] # snapshot[page]
    /\ KeyCount(page) = current_count

\* entries of the persisted records of page p that are the error placeholder
PlaceholderEntries(p) ==
    {<<k, i>> \in (DOMAIN Persisted(p)) \X (1..Len(prompts_by_page[p])) :
        LET q == prompts_by_page[p][i]
        IN  /\ q.public_json_key \in DOMAIN Persisted(p)[k]
            /\ Persisted(p)[k][q.public_json_key] = Placeholder(PromptId(q))}

\* C6: a failing generation call is not fatal: the block's entry becomes
\* "(generation error for <id>)", the run goes on with the next block, and the
\* finished run has persisted every key of the run with its placeholders.
C6_FailureNotFatal ==
    /\ [][failsLeft' < failsLeft
          => /\ alive'
             /\ pc' = "gen"
             /\ vi' = vi
             /\ bi' = bi + 1
             /\ Prompts[bi].public_json_key \in DOMAIN page_data'
             /\ page_data'[Prompts[bi].public_json_key]
                    = "(generation error for " \o PromptId(Prompts[bi]) \o ")"]_vars
    /\ [](pc = "done"
          => /\ \A i \in 1..Len(indices) : Str(indices[i]) \in DOMAIN Persisted(page)
             /\ Cardinality(PlaceholderEntries(page)) = GenCalls - failsLeft)

\* a finished run in which a call failed and a later call of the same variant
\* succeeded
C6_Witness ==
    /\ pc = "done"
    /\ page = "about"
    /\ "1" \in DOMAIN Persisted("about")
    /\ Persisted("about")["1"]["intro"] = Placeholder("about-intro")
    /\ Persisted("about")["1"]["body"] = Completion(seed, "1", "about-body")
    /\ Persisted("about")["2"]["intro"] = Completion(seed, "2", "about-intro")

\* C7: empty buffer, capacity 20, 5 new variants, page "about" with 3 prompt
\* blocks: the persisted buffer has exactly the keys "1".."5" and every record
\* has exactly the 3 block keys, each a completion or the error placeholder.
C7_EndToEnd ==
    (pc = "done" /\ page = "about")
    => /\ DOMAIN Persisted("about") = {"1", "2", "3", "4", "5"}
       /\ \A k \in DOMAIN Persisted("about") :
            /\ DOMAIN Persisted("about")[k] = {"intro", "body", "outro"}
            /\ \A i \in 1..3 :
                 LET q == prompts_by_page["about"][i]
                 IN  Persisted("about")[k][q.public_json_key]
                        \in {Completion(seed, k, q.id), Placeholder(q.id)}

\* the finished run of that scenario, with failed and successful calls
C7_Witness ==
    /\ pc = "done"
    /\ page = "about"
    /\ failsLeft < GenCalls
    /\ failsLeft > 0
    /\ Persisted("about")["5"]["outro"] = Placeholder("about-outro")

\* ---------------------------------------------------------------------------
\* regenerate_images.py: main and prepare_scenes, one action per step
\* ---------------------------------------------------------------------------
RECURSIVE CopyScenes(_, _, _)
\* the scenes of deepcopy(config): every inline variant list becomes new objects
CopyScenes(acc, scs, i) ==
    IF i > Len(scs) THEN acc
    ELSE LET sc == scs[i]
             a  == IF sc.variants.kind = "list"
                   THEN AllocList(acc.heap, sc.variants.items)
                   ELSE [heap |-> acc.heap, ref |-> 0]
         IN  CopyScenes([heap |-> a.heap,
                         scenes |-> Append(acc.scenes,
                                       [key |-> sc.key, master |-> sc.master,
                                        vkind |-> sc.variants.kind, vref |-> a.ref])],
                        scs, i + 1)

\* line 153: cfg = deepcopy(config)
CopyConfig(c) ==
    LET sh == IF c.shared.present THEN AllocList(<<>>, c.shared.items)
                                  ELSE [heap |-> <<>>, ref |-> 0]
        b  == CopyScenes([heap |-> sh.heap, scenes |-> <<>>], c.scenes, 1)
    IN  [heap |-> b.heap, cfg |-> [shared |-> sh.ref, scenes |-> b.scenes]]

\* scene.get("variants", []) as a value
SceneVariants(h, sc) == IF sc.vkind = "list" THEN ListValue(h, sc.vref) ELSE <<>>

\* json.dumps(config): the manifest the objects of cfg stand for
ConfigValue(h, c) ==
    [shared |-> IF c.shared = 0 THEN [present |-> FALSE, items |-> <<>>]
                ELSE [present |-> TRUE, items |-> ListValue(h, c.shared)],
     scenes |-> [i \in 1..Len(c.scenes) |->
                    [key |-> c.scenes[i].key, master |-> c.scenes[i].master,
                     variants |-> [kind |-> c.scenes[i].vkind,
                                   items |-> SceneVariants(h, c.scenes[i])]]]]

CurScene == cfg.scenes[si]
SceneIndex(k) == CHOOSE i \in 1..Len(cfg.scenes) : cfg.scenes[i].key = k

\* the scene loop goes on, or ends and control passes to `after`
LoopOn(after) ==
    IF si = Len(cfg.scenes) THEN spc' = after /\ si' = 1
                            ELSE spc' = spc /\ si' = si + 1

\* an uncaught SystemExit, ValueError or KeyError ends the process
Exit(why) == spc' = "exit" /\ error' = why /\ error_ids' = {}

\* lines 371-374, 153-155: load_config, then prepare_scenes copies the manifest
PrepareStart ==
    /\ spc = "start"
    /\ config.scenes # <<>>
    /\ heap' = CopyConfig(config).heap
    /\ cfg' = CopyConfig(config).cfg
    /\ spc' = "resolve"
    /\ si' = 1
    /\ UNCHANGED <<config, configFile, auto_sync, write_back, canonical,
                   canonical_scene, error, error_ids,
                   processed>>

\* lines 156-157: no scenes
PrepareNoScenes ==
    /\ spc = "start"
    /\ config.scenes = <<>>
    /\ Exit("no_scenes")
    /\ UNCHANGED <<config, configFile, auto_sync, write_back, heap, cfg, si,
                   canonical, canonical_scene, processed>>

\* `not shared_variants`: the field is missing or the list is empty
SharedFalsy == IF cfg.shared = 0 THEN TRUE ELSE heap[cfg.shared].items = <<>>

\* lines 160-165: one scene of the shorthand loop
ResolveScene ==
    /\ spc = "resolve"
    /\ IF CurScene.vkind = "marker"
       THEN /\ ~SharedFalsy
            /\ heap' = DeepCopyList(heap, cfg.shared).heap
            /\ cfg' = [cfg EXCEPT !.scenes[si] =
                          [@ EXCEPT !.vkind = "list",
                                    !.vref = DeepCopyList(heap, cfg.shared).ref]]
       ELSE UNCHANGED <<heap, cfg>>
    /\ LoopOn("check")
    /\ UNCHANGED <<config, configFile, auto_sync, write_back, canonical,
                   canonical_scene, error, error_ids,
                   processed>>

\* lines 162-164: the shorthand without a shared list
ResolveMissingShared ==
    /\ spc = "resolve"
    /\ CurScene.vkind = "marker"
    /\ SharedFalsy
    /\ Exit("no_shared_variants")
    /\ UNCHANGED <<config, configFile, auto_sync, write_back, heap, cfg, si,
                   canonical, canonical_scene, processed>>

\* A mutant of Mismatch: only the lengths of the lists are compared
MismatchByLength(norm, canon) == Len(norm) # Len(canon)

\* A mutant of Mismatch: the two lists are compared as sets of specs
MismatchAsSets(norm, canon) ==
    {norm[i] : i \in 1..Len(norm)} # {canon[i] : i \in 1..Len(canon)}

\* line 179: norm != canonical
Mismatch(norm, canon) == norm # canon

\* lines 172-173: _validate_unique_ids raises ValueError
CheckDuplicate ==
    /\ spc = "check"
    /\ HasDuplicateIds(SceneVariants(heap, CurScene))
    /\ spc' = "exit"
    /\ error' = "duplicate_ids"
    /\ error_ids' = DupIds(SceneVariants(heap, CurScene))
    /\ UNCHANGED <<config, configFile, auto_sync, write_back, heap, cfg, si,
                   canonical, canonical_scene, processed>>

\* lines 172-177: the first scene becomes the canonical one
CheckFirst ==
    /\ spc = "check"
    /\ ~HasDuplicateIds(SceneVariants(heap, CurScene))
    /\ ~canonical.set
    /\ canonical' = [set |-> TRUE, norm |-> NormList(SceneVariants(heap, CurScene))]
    /\ canonical_scene' = CurScene.key
    /\ LoopOn("return")
    /\ UNCHANGED <<config, configFile, auto_sync, write_back, heap, cfg, error, error_ids,
                   processed>>

\* lines 172-179: a later scene that matches
CheckMatch ==
    /\ spc = "check"
    /\ ~HasDuplicateIds(SceneVariants(heap, CurScene))
    /\ canonical.set
    /\ ~Mismatch(NormList(SceneVariants(heap, CurScene)), canonical.norm)
    /\ LoopOn("return")
    /\ UNCHANGED <<config, configFile, auto_sync, write_back, heap, cfg,
                   canonical, canonical_scene, error, error_ids,
                   processed>>

\* lines 179-185: a mismatch without --auto-sync
CheckMismatchExit ==
    /\ spc = "check"
    /\ ~HasDuplicateIds(SceneVariants(heap, CurScene))
    /\ canonical.set
    /\ Mismatch(NormList(SceneVariants(heap, CurScene)), canonical.norm)
    /\ ~auto_sync
    /\ Exit("mismatch")
    /\ UNCHANGED <<config, configFile, auto_sync, write_back, heap, cfg, si,
                   canonical, canonical_scene, processed>>

\* lines 179-183: a mismatch with --auto-sync
CheckMismatchSync ==
    /\ spc = "check"
    /\ ~HasDuplicateIds(SceneVariants(heap, CurScene))
    /\ canonical.set
    /\ Mismatch(NormList(SceneVariants(heap, CurScene)), canonical.norm)
    /\ auto_sync
    /\ cfg.scenes[SceneIndex(canonical_scene)].vkind = "list"
    /\ LET c == DeepCopyList(heap, cfg.scenes[SceneIndex(canonical_scene)].vref)
       IN  /\ heap' = c.heap
           /\ cfg' = [cfg EXCEPT !.scenes[si] =
                         [@ EXCEPT !.vkind = "list", !.vref = c.ref]]
    /\ LoopOn("return")
    /\ UNCHANGED <<config, configFile, auto_sync, write_back, canonical,
                   canonical_scene, error, error_ids,
                   processed>>

\* line 183: scenes[canonical_scene]["variants"] when the canonical scene has
\* no "variants" field raises KeyError
CheckMismatchSyncKeyError ==
    /\ spc = "check"
    /\ ~HasDuplicateIds(SceneVariants(heap, CurScene))
    /\ canonical.set
    /\ Mismatch(NormList(SceneVariants(heap, CurScene)), canonical.norm)
    /\ auto_sync
    /\ cfg.scenes[SceneIndex(canonical_scene)].vkind # "list"
    /\ Exit("KeyError")
    /\ UNCHANGED <<config, configFile, auto_sync, write_back, heap, cfg, si,
                   canonical, canonical_scene, processed>>

\* lines 186-190: optional write-back, then return to main
PrepareReturn ==
    /\ spc = "return"
    /\ configFile' = IF write_back /\ auto_sync THEN ConfigValue(heap, cfg)
                                                ELSE configFile
    /\ spc' = "main"
    /\ si' = 1
    /\ UNCHANGED <<config, auto_sync, write_back, heap, cfg, canonical,
                   canonical_scene, error, error_ids,
                   processed>>

\* A mutant of MasterMissing: process_scene does not look at the "master" field
MasterNeverMissing(sc) == FALSE

\* lines 238-239: `not scene.get("master")`; master = "" stands for a scene
\* without the field
MasterMissing(sc) == sc.master = ""

\* lines 239-240, 416: process_scene raises SystemExit and main does not catch it
ProcessSceneNoMaster ==
    /\ spc = "main"
    /\ MasterMissing(CurScene)
    /\ Exit("no_master")
    /\ UNCHANGED <<config, configFile, auto_sync, write_back, heap, cfg, si,
                   canonical, canonical_scene, processed>>

\* lines 380-416 with the default flags: process_scene on the next scene
ProcessScene ==
    /\ spc = "main"
    /\ ~MasterMissing(CurScene)
    /\ processed' = Append(processed, CurScene.key)
    /\ LoopOn("done")
    /\ UNCHANGED <<config, configFile, auto_sync, write_back, heap, cfg,
                   canonical, canonical_scene, error, error_ids>>

\* ---------------------------------------------------------------------------
\* SpecScenes: one invocation of regenerate_images.py on every manifest of the
\* model, with and without --auto-sync and --write-back
\* ---------------------------------------------------------------------------
InitScenes ==
    /\ BufIdle
    /\ IdxIdle
    /\ CropIdle
    /\ ProcIdle
    /\ EmblemIdle
    /\ config \in UNION {ConfigsOf(n) : n \in 0..MaxScenes}
    /\ configFile = config
    /\ auto_sync \in BOOLEAN
    /\ write_back \in BOOLEAN
    /\ heap = <<>>
    /\ cfg = [shared |-> 0, scenes |-> <<>>]
    /\ spc = "start"
    /\ si = 1
    /\ canonical = [set |-> FALSE, norm |-> <<>>]
    /\ canonical_scene = "none"
    /\ error = "none"
    /\ error_ids = {}
    /\ processed = <<>>

NextScenes ==
    \/ PrepareStart /\ UNCHANGED <<bufVars, idxVars, cropVars, procVars, emblemVars>>
    \/ PrepareNoScenes /\ UNCHANGED <<bufVars, idxVars, cropVars, procVars, emblemVars>>
    \/ ResolveScene /\ UNCHANGED <<bufVars, idxVars, cropVars, procVars, emblemVars>>
    \/ ResolveMissingShared /\ UNCHANGED <<bufVars, idxVars, cropVars, procVars, emblemVars>>
    \/ CheckDuplicate /\ UNCHANGED <<bufVars, idxVars, cropVars, procVars, emblemVars>>
    \/ CheckFirst /\ UNCHANGED <<bufVars, idxVars, cropVars, procVars, emblemVars>>
    \/ CheckMatch /\ UNCHANGED <<bufVars, idxVars, cropVars, procVars, emblemVars>>
    \/ CheckMismatchExit /\ UNCHANGED <<bufVars, idxVars, cropVars, procVars, emblemVars>>
    \/ CheckMismatchSync /\ UNCHANGED <<bufVars, idxVars, cropVars, procVars, emblemVars>>
    \/ CheckMismatchSyncKeyError /\ UNCHANGED <<bufVars, idxVars, cropVars, procVars, emblemVars>>
    \/ PrepareReturn /\ UNCHANGED <<bufVars, idxVars, cropVars, procVars, emblemVars>>
    \/ ProcessScene /\ UNCHANGED <<bufVars, idxVars, cropVars, procVars, emblemVars>>

SpecScenes == InitScenes /\ [][NextScenes]_vars

\* ---------------------------------------------------------------------------
\* SpecMain: one invocation of regenerate_images.py on manifests whose scenes
\* agree on their variants and have or lack the "master" field
\* ---------------------------------------------------------------------------
\* every images.json of the model with n scenes whose variant lists are the
\* same, inline or through the shared list; the scenes in `without` have no
\* "master" field
ConfigsWithMasters(n) ==
    {[shared |-> [present |-> TRUE, items |-> <<VarA, VarB>>],
      scenes |-> [i \in 1..n |->
                    [key |-> SceneKeys[i],
                     master |-> IF i \in without THEN ""
                                                ELSE SceneKeys[i] \o ".png",
                     variants |-> vs[i]]]] :
        without \in SUBSET (1..n),
        vs \in [1..n -> {[kind |-> "list", items |-> <<VarA, VarB>>],
                         [kind |-> "marker", items |-> <<>>]}]}

InitMain ==
    /\ BufIdle
    /\ IdxIdle
    /\ CropIdle
    /\ ProcIdle
    /\ EmblemIdle
    /\ config \in UNION {ConfigsWithMasters(n) : n \in 1..MaxScenes}
    /\ configFile = config
    /\ auto_sync \in BOOLEAN
    /\ write_back \in BOOLEAN
    /\ heap = <<>>
    /\ cfg = [shared |-> 0, scenes |-> <<>>]
    /\ spc = "start"
    /\ si = 1
    /\ canonical = [set |-> FALSE, norm |-> <<>>]
    /\ canonical_scene = "none"
    /\ error = "none"
    /\ error_ids = {}
    /\ processed = <<>>

NextMain ==
    \/ PrepareStart /\ UNCHANGED <<bufVars, idxVars, cropVars, procVars, emblemVars>>
    \/ ResolveScene /\ UNCHANGED <<bufVars, idxVars, cropVars, procVars, emblemVars>>
    \/ CheckFirst /\ UNCHANGED <<bufVars, idxVars, cropVars, procVars, emblemVars>>
    \/ CheckMatch /\ UNCHANGED <<bufVars, idxVars, cropVars, procVars, emblemVars>>
    \/ PrepareReturn /\ UNCHANGED <<bufVars, idxVars, cropVars, procVars, emblemVars>>
    \/ ProcessScene /\ UNCHANGED <<bufVars, idxVars, cropVars, procVars, emblemVars>>
    \/ ProcessSceneNoMaster /\ UNCHANGED <<bufVars, idxVars, cropVars, procVars, emblemVars>>

SpecMain == InitMain /\ [][NextMain]_vars

\* ---------------------------------------------------------------------------
\* Claims about prepare_scenes
\* ---------------------------------------------------------------------------
NumScenes == Len(config.scenes)
Returned == spc \in {"main", "done"}
Ended == spc \in {"done", "exit"}

\* the normalized variant list of scene i of the working copy
CfgNorm(i) == NormList(SceneVariants(heap, cfg.scenes[i]))

\* the variant list scene i of images.json stands for
ResolvedIn(i) ==
    LET v == config.scenes[i].variants
    IN  IF v.kind = "list" THEN v.items
        ELSE IF v.kind = "marker" THEN config.shared.items
        ELSE <<>>

\* C8: whenever prepare_scenes has returned (with or without auto_sync), and
\* so whenever process_scene runs, the normalized variant list of every scene
\* of the returned configuration equals that of the first scene.
C8_ReturnedScenesConsistent ==
    (Returned \/ processed # <<>>)
    => \A i \in 1..Len(cfg.scenes) : CfgNorm(i) = CfgNorm(1)

\* a run with --auto-sync on a manifest whose second scene differs in width:
\* prepare_scenes returned and every scene was processed
C8_Witness ==
    /\ spc = "done"
    /\ auto_sync
    /\ NumScenes >= 2
    /\ Len(processed) = NumScenes
    /\ config.scenes[1].variants = [kind |-> "list", items |-> <<VarA, VarB>>]
    /\ config.scenes[2].variants = [kind |-> "list", items |-> <<VarAWide, VarB>>]

\* every scene of images.json gives its list inline, without a repeated id
AllInlineUniqueIds ==
    \A i \in 1..NumScenes :
        /\ config.scenes[i].variants.kind = "list"
        /\ ~HasDuplicateIds(config.scenes[i].variants.items)

\* two variant lists agree, position by position, on every compared field
SameOnComparedFields(l1, l2) ==
    /\ Len(l1) = Len(l2)
    /\ \A i \in 1..Len(l1) : \A k \in NormKeys :
          /\ (k \in DOMAIN l1[i]) <=> (k \in DOMAIN l2[i])
          /\ (k \in DOMAIN l1[i] /\ k \in DOMAIN l2[i]) => l1[i][k] = l2[i][k]

\* two variant lists differ in the width of some variant
DifferInWidth(l1, l2) ==
    /\ Len(l1) = Len(l2)
    /\ \E i \in 1..Len(l1) :
          /\ "width" \in DOMAIN l1[i]
          /\ "width" \in DOMAIN l2[i]
          /\ l1[i].width # l2[i].width

\* C9: without auto-sync, scenes whose variant lists differ from the first
\* scene's only in fields outside the compared subset are accepted (the run
\* processes every scene); a scene whose list differs in the width of a variant
\* is rejected with the mismatch error and no scene is processed.
C9_IgnoredFieldVsWidth ==
    (Ended /\ ~auto_sync /\ NumScenes >= 2 /\ AllInlineUniqueIds)
    => /\ (\A i \in 2..NumScenes : SameOnComparedFields(ResolvedIn(1), ResolvedIn(i)))
          => (error = "none" /\ Len(processed) = NumScenes)
       /\ (\E i \in 2..NumScenes : DifferInWidth(ResolvedIn(1), ResolvedIn(i)))
          => (error = "mismatch" /\ processed = <<>>)

\* a finished run without auto-sync on a manifest in which a scene differs from
\* the first one, and only by a field that is not compared
C9_Witness ==
    /\ spc = "done"
    /\ ~auto_sync
    /\ error = "none"
    /\ AllInlineUniqueIds
    /\ \E i \in 2..NumScenes :
          /\ ResolvedIn(i) # ResolvedIn(1)
          /\ SameOnComparedFields(ResolvedIn(1), ResolvedIn(i))

\* images.json can be prepared but for mismatches: it has scenes, every
\* "shared_variants" reference has a list to refer to, no scene repeats an id
Preparable ==
    /\ NumScenes >= 1
    /\ \A i \in 1..NumScenes :
          /\ config.scenes[i].variants.kind = "marker" => config.shared.items # <<>>
          /\ ~HasDuplicateIds(ResolvedIn(i))

DictRefs(ref) == {heap[ref].items[j] : j \in 1..Len(heap[ref].items)}

\* the variant lists of scenes i and j of the working copy share no object
IndependentLists(i, j) ==
    /\ cfg.scenes[i].vref # cfg.scenes[j].vref
    /\ DictRefs(cfg.scenes[i].vref) \cap DictRefs(cfg.scenes[j].vref) = {}

\* C10: with auto-sync the first scene is canonical, every scene whose
\* normalized list differs from it ends with an independent deep copy of the
\* canonical scene's full variant list, the other scenes keep their list, and
\* no error is raised.
C10_AutoSyncDeepCopy ==
    (Ended /\ auto_sync /\ Preparable)
    => /\ error = "none"
       /\ canonical_scene = config.scenes[1].key
       /\ \A i \in 1..NumScenes :
            IF NormList(ResolvedIn(i)) # NormList(ResolvedIn(1))
            THEN /\ cfg.scenes[i].vkind = "list"
                 /\ cfg.scenes[1].vkind = "list"
                 /\ ListValue(heap, cfg.scenes[i].vref) = ResolvedIn(1)
                 /\ IndependentLists(i, 1)
            ELSE SceneVariants(heap, cfg.scenes[i]) = ResolvedIn(i)

\* the ids that occur more than once in a variant list
RepeatedIds(l) ==
    {x \in {l[i].id : i \in 1..Len(l)} :
        \E i, j \in 1..Len(l) : i < j /\ l[i].id = x /\ l[j].id = x}

\* the scenes of images.json whose variant list repeats an id
ScenesRepeatingIds == {i \in 1..NumScenes : RepeatedIds(ResolvedIn(i)) # {}}

\* every "shared_variants" reference of images.json has a list to refer to
MarkersResolvable ==
    \A i \in 1..NumScenes :
        config.scenes[i].variants.kind = "marker" => config.shared.items # <<>>

\* C11: a manifest with a scene whose variant list repeats an id is never
\* processed: the run ends with an error and no scene is processed; when the
\* scenes before the first such scene agree with the first scene, the error is
\* the duplicate-id error and it names exactly the repeated ids of that scene.
\* A manifest whose scenes all have pairwise distinct ids never gets the
\* duplicate-id error.
C11_DuplicateIdsRejected ==
    (Ended /\ NumScenes >= 1 /\ MarkersResolvable)
    => /\ error = "duplicate_ids"
          => /\ si \in ScenesRepeatingIds
             /\ error_ids = RepeatedIds(ResolvedIn(si))
             /\ error_ids # {}
       /\ ScenesRepeatingIds = {} => error # "duplicate_ids"
       /\ \A k \in ScenesRepeatingIds :
             /\ error # "none"
             /\ processed = <<>>
             /\ (\A j \in 1..(k - 1) :
                    /\ j \notin ScenesRepeatingIds
                    /\ NormList(ResolvedIn(j)) = NormList(ResolvedIn(1)))
                => (error = "duplicate_ids" /\ si = k)

\* a run rejected at its second scene, whose list repeats an id
C11_Witness ==
    /\ spc = "exit"
    /\ error = "duplicate_ids"
    /\ si = 2
    /\ error_ids = {"a"}
    /\ processed = <<>>

\* the scenes of images.json whose "variants" is the string "shared_variants"
MarkerScenes == {i \in 1..NumScenes : config.scenes[i].variants.kind = "marker"}

\* the shorthand loop is over and the check loop has not started
JustResolved == spc = "check" /\ si = 1 /\ ~canonical.set

\* C18: when the shorthand loop is over, every scene that referred to
\* "shared_variants" holds a list equal to the manifest's shared list, made of
\* objects it shares neither with the shared list nor with any other scene;
\* a manifest with such a scene and a shared list is not rejected for a missing
\* shared list, and one with such a scene and no shared list is rejected
\* before any scene is processed.
C18_SharedVariantsDeepCopy ==
    /\ JustResolved
       => \A i \in MarkerScenes :
             /\ cfg.scenes[i].vkind = "list"
             /\ ListValue(heap, cfg.scenes[i].vref) = config.shared.items
             /\ cfg.scenes[i].vref # cfg.shared
             /\ DictRefs(cfg.scenes[i].vref) \cap DictRefs(cfg.shared) = {}
             /\ \A j \in 1..NumScenes :
                   (j # i /\ cfg.scenes[j].vkind = "list") => IndependentLists(i, j)
    /\ (Ended /\ MarkerScenes # {} /\ config.shared.present)
       => error # "no_shared_variants"
    /\ (Ended /\ MarkerScenes # {} /\ ~config.shared.present)
       => (error = "no_shared_variants" /\ processed = <<>>)

\* the scenes of images.json without a "master" field
MasterlessScenes == {i \in 1..NumScenes : config.scenes[i].master = ""}

\* the keys of the scenes 1..n of images.json, in order
KeysBefore(n) == [i \in 1..n |-> config.scenes[i].key]

\* C12 as stated: at the end of a run every scene that has a "master" field
\* has been processed, whatever scenes without the field come before it.
C12_MasterlessSceneSkipped ==
    Ended => \A i \in 1..NumScenes :
                i \notin MasterlessScenes
                => \E n \in 1..Len(processed) : processed[n] = config.scenes[i].key

\* C12, amended: the first scene without a "master" field ends the run: the
\* scenes before it have been processed, in order, and neither it nor any
\* scene after it is; a manifest whose scenes all have the field is processed
\* entirely.
C12_MasterlessSceneEndsRun ==
    Ended => IF MasterlessScenes = {}
             THEN error = "none" /\ processed = KeysBefore(NumScenes)
             ELSE LET k == CHOOSE i \in MasterlessScenes :
                               \A j \in MasterlessScenes : i <= j
                  IN  /\ error = "no_master"
                      /\ spc = "exit"
                      /\ processed = KeysBefore(k - 1)

\* the run ended at its second scene, which has no "master" field; the first
\* scene was processed and the third, which has the field, was not
C12_Witness ==
    /\ spc = "exit"
    /\ error = "no_master"
    /\ NumScenes = 3
    /\ MasterlessScenes = {2}
    /\ processed = <<"hero">>

\* ---------------------------------------------------------------------------
\* regenerate_images.py: the generate step of main and process_scene on one
\* scene, one action per variant
\* ---------------------------------------------------------------------------
GEN_DEFAULT_W == 2048
GEN_DEFAULT_H == 1280

\* a file Image.open cannot read
CorruptFile == [w |-> 0, h |-> 0, px |-> "corrupt"]
Openable(c) == c.px # "corrupt"

\* line 269: v.get("filename") or f"{vid}.png"
BaseFname(v) ==
    IF "filename" \in DOMAIN v /\ v.filename # "" THEN v.filename
    ELSE v.id \o ".png"

\* lines 235, 270-271: scene_out / f"{scene_key}-{base_fname}", below out_base
OutPath(key, v) == key \o "/" \o key \o "-" \o BaseFname(v)

\* lines 120-124: the stub's image
PlaceholderImage(v) ==
    [w |-> IF "width" \in DOMAIN v THEN v.width ELSE GEN_DEFAULT_W,
     h |-> IF "height" \in DOMAIN v THEN v.height ELSE GEN_DEFAULT_H,
     px |-> "placeholder"]

\* A mutant of handle_generate: the existing file is not looked at
HandleGenerateAlways(f, v, out_path, frc) ==
    [fs |-> Put(f, out_path, PlaceholderImage(v)), path |-> out_path,
     wrote |-> TRUE]

\* lines 105-126: _handle_generate; the files after it, the path it returns,
\* and whether it wrote
handle_generate(f, v, out_path, frc) ==
    IF out_path \in DOMAIN f /\ ~frc
    THEN [fs |-> f, path |-> out_path, wrote |-> FALSE]
    ELSE [fs |-> Put(f, out_path, PlaceholderImage(v)), path |-> out_path,
          wrote |-> TRUE]

\* line 263: type_order.get(type, 99)
type_order(t) ==
    CASE t = "generate" -> 0
      [] t = "master" -> 1
      [] t = "crop" -> 2
      [] t = "resize" -> 3
      [] OTHER -> 99

OfRank(vs, r) == SelectSeq(vs, LAMBDA v : type_order(v.type) = r)

\* A mutant of SortByType: the variants stay in declaration order
DeclarationOrder(vs) == vs

\* line 264: sorted() is stable, so each rank keeps the declaration order
SortByType(vs) ==
    OfRank(vs, 0) \o OfRank(vs, 1) \o OfRank(vs, 2) \o OfRank(vs, 3) \o OfRank(vs, 99)

\* produced[vid] = path on a dict that keeps insertion order
DictSet(pr, k, val) ==
    IF \E i \in 1..Len(pr) : pr[i][1] = k
    THEN [i \in 1..Len(pr) |-> IF pr[i][1] = k THEN <<k, val>> ELSE pr[i]]
    ELSE Append(pr, <<k, val>>)

ProducedIds(pr) == {pr[i][1] : i \in 1..Len(pr)}

\* A mutant of master_variant: the variant is recorded also without a master file
MasterVariantRecordsAlways(f, pr, mpath, v, out_path, frc) ==
    IF mpath \in DOMAIN f
    THEN IF out_path \notin DOMAIN f \/ frc
         THEN [fs |-> Put(f, out_path, f[mpath]),
               produced |-> DictSet(pr, v.id, out_path), wrote |-> TRUE]
         ELSE [fs |-> f, produced |-> DictSet(pr, v.id, out_path), wrote |-> FALSE]
    ELSE [fs |-> f, produced |-> DictSet(pr, v.id, out_path), wrote |-> FALSE]

\* lines 273-292: a variant of type "master"; the copy is Image.open + save,
\* or copyfile where that fails, so the output has the master's content
master_variant(f, pr, mpath, v, out_path, frc) ==
    IF mpath \in DOMAIN f
    THEN IF out_path \notin DOMAIN f \/ frc
         THEN [fs |-> Put(f, out_path, f[mpath]),
               produced |-> DictSet(pr, v.id, out_path), wrote |-> TRUE]
         ELSE [fs |-> f, produced |-> DictSet(pr, v.id, out_path), wrote |-> FALSE]
    ELSE [fs |-> f, produced |-> pr, wrote |-> FALSE]

\* lines 306-319: master_img, or the first file of produced that can be opened
ResolveSource(mi, pr, f) ==
    IF mi # NoImage THEN mi
    ELSE LET ok == {i \in 1..Len(pr) : /\ pr[i][2] \in DOMAIN f
                                       /\ Openable(f[pr[i][2]])}
         IN  IF ok = {} THEN NoImage
             ELSE f[pr[CHOOSE i \in ok : \A j \in ok : i <= j][2]]

\* lines 66-96: the image is cropped to the target's aspect and resized to the
\* target, or copied when it has the target's size
crop_center_to_aspect(img, target_w, target_h, centered) ==
    IF img.w = target_w /\ img.h = target_h THEN img
    ELSE [w |-> target_w, h |-> target_h, px |-> "crop of " \o img.px]

\* round(a / b) for positive a, b
RoundDiv(a, b) == (2 * a + b) \div (2 * b)

\* lines 98-100: ImageOps.contain fits the image into the target, keeping
\* its aspect
resize_to(img, target_w, target_h) ==
    IF img.w * target_h = target_w * img.h
    THEN [w |-> target_w, h |-> target_h, px |-> "resize of " \o img.px]
    ELSE IF img.w * target_h > target_w * img.h
    THEN [w |-> target_w, h |-> RoundDiv(img.h * target_w, img.w),
          px |-> "resize of " \o img.px]
    ELSE [w |-> RoundDiv(img.w * target_h, img.h), h |-> target_h,
          px |-> "resize of " \o img.px]

\* lines 383-391: one variant of main's generate step
GenerateStep ==
    /\ ppc = "generate"
    /\ vpos <= Len(scene.variants)
    /\ LET v == scene.variants[vpos]
           g == handle_generate(fs, v, OutPath(scene.key, v), force)
       IN  IF v.type = "generate"
           THEN /\ fs' = g.fs
                /\ written' = IF g.wrote THEN Append(written, g.path) ELSE written
           ELSE UNCHANGED <<fs, written>>
    /\ vpos' = vpos + 1
    /\ UNCHANGED <<fs0, force, args_generate, args_process, scene, master_img,
                   produced, variants_sorted, ppc>>

\* lines 384, 415-418: the generate step is over
GenerateStepEnd ==
    /\ ppc = "generate"
    /\ vpos > Len(scene.variants)
    /\ ppc' = IF args_process THEN "process" ELSE "done"
    /\ vpos' = 1
    /\ UNCHANGED <<fs, fs0, force, args_generate, args_process, scene,
                   master_img, produced, variants_sorted, written>>

\* lines 239-240: process_scene raises SystemExit, which ends the invocation
ProcessSceneExit ==
    /\ ppc = "process"
    /\ MasterMissing(scene)
    /\ ppc' = "exit"
    /\ UNCHANGED <<fs, fs0, force, args_generate, args_process, scene,
                   master_img, produced, variants_sorted, vpos, written>>

\* lines 234-264: process_scene up to its loop
ProcessSceneStart ==
    /\ ppc = "process"
    /\ ~MasterMissing(scene)
    /\ master_img' = IF scene.master \in DOMAIN fs
                     THEN IF Openable(fs[scene.master]) THEN fs[scene.master]
                                                        ELSE NoImage
                     ELSE NoImage
    /\ produced' = <<>>
    /\ variants_sorted' = SortByType(scene.variants)
    /\ vpos' = 1
    /\ ppc' = "loop"
    /\ UNCHANGED <<fs, fs0, force, args_generate, args_process, scene, written>>

InLoop == ppc = "loop" /\ vpos <= Len(variants_sorted)
CurVariant == variants_sorted[vpos]
CurOut == OutPath(scene.key, CurVariant)

\* lines 273-292: a variant of type "master"
VariantMaster ==
    /\ InLoop
    /\ CurVariant.type = "master"
    /\ LET m == master_variant(fs, produced, scene.master, CurVariant, CurOut, force)
       IN  /\ fs' = m.fs
           /\ produced' = m.produced
           /\ written' = IF m.wrote THEN Append(written, CurOut) ELSE written
    /\ vpos' = vpos + 1
    /\ UNCHANGED <<fs0, force, args_generate, args_process, scene, master_img,
                   variants_sorted, ppc>>

\* lines 294-304: a variant of type "generate"
VariantGenerate ==
    /\ InLoop
    /\ CurVariant.type = "generate"
    /\ LET g == handle_generate(fs, CurVariant, CurOut, force)
       IN  /\ fs' = g.fs
           /\ produced' = DictSet(produced, CurVariant.id, g.path)
           /\ written' = IF g.wrote THEN Append(written, g.path) ELSE written
           /\ master_img' = IF /\ master_img = NoImage
                               /\ g.path \in DOMAIN g.fs
                               /\ Openable(g.fs[g.path])
                            THEN g.fs[g.path] ELSE master_img
    /\ vpos' = vpos + 1
    /\ UNCHANGED <<fs0, force, args_generate, args_process, scene,
                   variants_sorted, ppc>>

Derived == InLoop /\ CurVariant.type \notin {"master", "generate"}
CurSource == ResolveSource(master_img, produced, fs)
CurW == IF "width" \in DOMAIN CurVariant THEN CurVariant.width ELSE CurSource.w
CurH == IF "height" \in DOMAIN CurVariant THEN CurVariant.height ELSE CurSource.h
CurCentered ==
    IF "centered" \in DOMAIN CurVariant THEN CurVariant.centered ELSE TRUE

\* lines 321-323: no source image, the variant is skipped
VariantNoSource ==
    /\ Derived
    /\ CurSource = NoImage
    /\ vpos' = vpos + 1
    /\ UNCHANGED <<fs, fs0, force, args_generate, args_process, scene,
                   master_img, produced, variants_sorted, ppc, written>>

\* A mutant of DerivedKept: an existing output is kept unless forced
DerivedKeptIfExists(f, out_path, frc) == out_path \in DOMAIN f /\ ~frc

\* whether a crop or resize variant keeps the output it finds (lines 331-341:
\* never, _safe_save_image is called without a test of out_path or force)
DerivedKept(f, out_path, frc) == FALSE

\* lines 325-335: a variant of type "crop"
VariantCrop ==
    /\ Derived
    /\ CurSource # NoImage
    /\ CurVariant.type = "crop"
    /\ fs' = IF DerivedKept(fs, CurOut, force) THEN fs
             ELSE Put(fs, CurOut,
                      crop_center_to_aspect(CurSource, CurW, CurH, CurCentered))
    /\ produced' = DictSet(produced, CurVariant.id, CurOut)
    /\ written' = IF DerivedKept(fs, CurOut, force) THEN written
                  ELSE Append(written, CurOut)
    /\ vpos' = vpos + 1
    /\ UNCHANGED <<fs0, force, args_generate, args_process, scene, master_img,
                   variants_sorted, ppc>>

\* lines 325-330, 337-341: a variant of type "resize"
VariantResize ==
    /\ Derived
    /\ CurSource # NoImage
    /\ CurVariant.type = "resize"
    /\ fs' = IF DerivedKept(fs, CurOut, force) THEN fs
             ELSE Put(fs, CurOut, resize_to(CurSource, CurW, CurH))
    /\ produced' = DictSet(produced, CurVariant.id, CurOut)
    /\ written' = IF DerivedKept(fs, CurOut, force) THEN written
                  ELSE Append(written, CurOut)
    /\ vpos' = vpos + 1
    /\ UNCHANGED <<fs0, force, args_generate, args_process, scene, master_img,
                   variants_sorted, ppc>>

\* lines 343-344: a variant of any other type
VariantUnknown ==
    /\ Derived
    /\ CurSource # NoImage
    /\ CurVariant.type \notin {"crop", "resize"}
    /\ vpos' = vpos + 1
    /\ UNCHANGED <<fs, fs0, force, args_generate, args_process, scene,
                   master_img, produced, variants_sorted, ppc, written>>

\* lines 346-347, 418: process_scene returns and main ends
ProcessSceneReturn ==
    /\ ppc = "loop"
    /\ vpos > Len(variants_sorted)
    /\ ppc' = "done"
    /\ UNCHANGED <<fs, fs0, force, args_generate, args_process, scene,
                   master_img, produced, variants_sorted, vpos, written>>

\* ---------------------------------------------------------------------------
\* SpecProcess: one invocation of regenerate_images.py on a manifest with one
\* scene, with --generate, --process or both, with and without --force, on
\* every combination of missing, readable and unreadable files
\* ---------------------------------------------------------------------------
GenSmall == [id |-> "g1", type |-> "generate", width |-> 200, height |-> 100]
GenDefault == [id |-> "g2", type |-> "generate"]
MasterCopy == [id |-> "m", type |-> "master"]
CropVar == [id |-> "c", type |-> "crop", width |-> 100, height |-> 50]
ResizeVar == [id |-> "r", type |-> "resize", width |-> 100, height |-> 50]
PosterVar == [id |-> "x", type |-> "poster"]

ProcLists == { <<CropVar, GenSmall, MasterCopy, ResizeVar>>,
               <<CropVar, ResizeVar, MasterCopy>>,
               <<GenSmall, CropVar, GenDefault>>,
               <<PosterVar, CropVar, GenSmall>> }

MasterImage == [w |-> 400, h |-> 300, px |-> "master"]
OldImage == [w |-> 64, h |-> 64, px |-> "old"]

ProcScenes ==
    {[key |-> "hero", master |-> m, variants |-> l] :
        m \in {"", "masters/hero.png"}, l \in ProcLists}

OutPaths(sc) == {OutPath(sc.key, sc.variants[i]) : i \in 1..Len(sc.variants)}

\* the files an invocation can find: any of the outputs, readable or not, and
\* the master file, readable or not
FilesFor(sc) ==
    {f \in UNION {[P -> {MasterImage, OldImage, CorruptFile}] :
                    P \in SUBSET (OutPaths(sc) \cup ({sc.master} \ {""}))} :
        \A q \in DOMAIN f : (f[q] = MasterImage) <=> (q = sc.master /\ f[q] # CorruptFile)}

InitProcess ==
    /\ BufIdle
    /\ IdxIdle
    /\ CropIdle
    /\ SceneIdle
    /\ EmblemIdle
    /\ scene \in ProcScenes
    /\ fs \in FilesFor(scene)
    /\ fs0 = fs
    /\ force \in BOOLEAN
    /\ args_generate \in BOOLEAN
    /\ args_process \in BOOLEAN
    /\ args_generate \/ args_process
    /\ master_img = NoImage
    /\ produced = <<>>
    /\ variants_sorted = <<>>
    /\ vpos = 1
    /\ ppc = IF args_generate THEN "generate" ELSE "process"
    /\ written = <<>>

NextProcess ==
    \/ GenerateStep /\ UNCHANGED <<bufVars, idxVars, cropVars, sceneVars, emblemVars>>
    \/ GenerateStepEnd /\ UNCHANGED <<bufVars, idxVars, cropVars, sceneVars, emblemVars>>
    \/ ProcessSceneExit /\ UNCHANGED <<bufVars, idxVars, cropVars, sceneVars, emblemVars>>
    \/ ProcessSceneStart /\ UNCHANGED <<bufVars, idxVars, cropVars, sceneVars, emblemVars>>
    \/ VariantMaster /\ UNCHANGED <<bufVars, idxVars, cropVars, sceneVars, emblemVars>>
    \/ VariantGenerate /\ UNCHANGED <<bufVars, idxVars, cropVars, sceneVars, emblemVars>>
    \/ VariantNoSource /\ UNCHANGED <<bufVars, idxVars, cropVars, sceneVars, emblemVars>>
    \/ VariantCrop /\ UNCHANGED <<bufVars, idxVars, cropVars, sceneVars, emblemVars>>
    \/ VariantResize /\ UNCHANGED <<bufVars, idxVars, cropVars, sceneVars, emblemVars>>
    \/ VariantUnknown /\ UNCHANGED <<bufVars, idxVars, cropVars, sceneVars, emblemVars>>
    \/ ProcessSceneReturn /\ UNCHANGED <<bufVars, idxVars, cropVars, sceneVars, emblemVars>>

SpecProcess == InitProcess /\ [][NextProcess]_vars

\* ---------------------------------------------------------------------------
\* Claims about the generate step and process_scene
\* ---------------------------------------------------------------------------
WrittenPaths == {written[i] : i \in 1..Len(written)}

\* the variants process_scene's loop has gone through
Attempted == {variants_sorted[i] : i \in 1..(vpos - 1)}

\* path q is as the invocation found it
Untouched(q) ==
    /\ q \notin WrittenPaths
    /\ (q \in DOMAIN fs) <=> (q \in DOMAIN fs0)
    /\ q \in DOMAIN fs => fs[q] = fs0[q]

\* C13: when the scene's master file does not exist, a variant of type
\* "master" that process_scene has gone through has written nothing to its
\* output path and is not in produced, and process_scene goes on: it does not
\* exit, and when it returns it has gone through every variant, every generate
\* variant is in produced with its file, and every crop and resize variant
\* has been written from the generated preview if there is one.
C13_MissingMasterFileSkipsVariant ==
    (ppc \in {"loop", "done"} /\ args_process /\ scene.master \notin DOMAIN fs0)
    => /\ \A v \in Attempted :
             v.type = "master"
             => /\ v.id \notin ProducedIds(produced)
                /\ Untouched(OutPath(scene.key, v))
       /\ ppc = "done"
          => /\ Attempted = {scene.variants[i] : i \in 1..Len(scene.variants)}
             /\ \A v \in Attempted :
                   /\ v.type = "generate"
                      => /\ v.id \in ProducedIds(produced)
                         /\ OutPath(scene.key, v) \in DOMAIN fs
                   /\ (v.type \in {"crop", "resize"} /\ master_img # NoImage)
                      => /\ v.id \in ProducedIds(produced)
                         /\ OutPath(scene.key, v) \in WrittenPaths

\* process_scene has returned on a scene whose master file is missing: the
\* master variant left no trace, the resize variant after it was written
C13_Witness ==
    /\ ppc = "done"
    /\ args_process
    /\ scene.master \notin DOMAIN fs0
    /\ scene.variants = <<CropVar, GenSmall, MasterCopy, ResizeVar>>
    /\ "m" \notin ProducedIds(produced)
    /\ OutPath(scene.key, MasterCopy) \notin DOMAIN fs
    /\ OutPath(scene.key, ResizeVar) \in WrittenPaths

\* main's generate step is about to handle a generate variant
MainGenerateOn ==
    /\ ppc = "generate"
    /\ vpos <= Len(scene.variants)
    /\ scene.variants[vpos].type = "generate"

\* process_scene is about to handle a generate variant
LoopGenerateOn == InLoop /\ CurVariant.type = "generate"

\* C14: without --force, a generate step (of main or of process_scene) on a
\* variant whose output file exists changes no file and writes nothing, and
\* process_scene records that path for the variant; after any generate step
\* the output file exists, so a second step without --force changes nothing.
C14_GenerateIdempotent ==
    /\ [][(MainGenerateOn /\ ~force
             /\ OutPath(scene.key, scene.variants[vpos]) \in DOMAIN fs)
           => (fs' = fs /\ written' = written)]_vars
    /\ [][(LoopGenerateOn /\ ~force /\ CurOut \in DOMAIN fs)
           => /\ fs' = fs
              /\ written' = written
              /\ \E i \in 1..Len(produced') :
                    produced'[i] = <<CurVariant.id, CurOut>>]_vars
    /\ [][MainGenerateOn
           => OutPath(scene.key, scene.variants[vpos]) \in DOMAIN fs']_vars
    /\ [][LoopGenerateOn => CurOut \in DOMAIN fs']_vars

\* a run with --generate and --process and without --force has handled both
\* generate variants twice: the file that existed is as it was, the file that
\* did not exist was written once
C14_Witness ==
    /\ ppc = "done"
    /\ args_generate
    /\ args_process
    /\ ~force
    /\ scene.variants = <<GenSmall, CropVar, GenDefault>>
    /\ OutPath(scene.key, GenSmall) \in DOMAIN fs0
    /\ fs0[OutPath(scene.key, GenSmall)] = OldImage
    /\ fs[OutPath(scene.key, GenSmall)] = OldImage
    /\ OutPath(scene.key, GenDefault) \notin DOMAIN fs0
    /\ Cardinality({i \in 1..Len(written) :
                       written[i] = OutPath(scene.key, GenDefault)}) = 1
    /\ {"g1", "g2"} \subseteq ProducedIds(produced)

\* ---------------------------------------------------------------------------
\* generate_about_emblem.py: the selection of the variants and the main loop,
\* one action per attempt
\* ---------------------------------------------------------------------------
DEFAULT_RETRIES == 3
MaxEmblems == 2

\* what generate_one_emblem can return: an image the OCR finds text in, one
\* it finds none in, and bytes that are no image (the OCR fails on them, which
\* counts as no text)
TextImage == "image with text"
CleanImage == "image without text"
NotAnImage == "undecodable bytes"

\* lines 118-126: ocr_has_text
ocr_has_text(b) == b = TextImage

\* A mutant of AfterOcrReject: the rejected image is kept
AfterOcrRejectKeeps(b) == b

\* line 228: png_bytes = None
AfterOcrReject(b) == NoBytes

\* line 197: key
EmblemKey == to_generate[ei]

\* lines 179-195: the variants without an emblem file (all of them with
\* --force); nothing to do, or --dry-run, ends the run here
SelectVariants ==
    /\ epc = "select"
    /\ to_generate' = SelectSeq(variant_keys,
                                LAMBDA k : ~(k \in DOMAIN emblems /\ ~FORCE))
    /\ epc' = IF to_generate' = <<>> \/ DRY_RUN THEN "done" ELSE "attempts"
    /\ UNCHANGED <<MAX_RETRIES, FORCE, DRY_RUN, variant_keys, emblems, emblems0,
                   ei, attempt, png_bytes, last_error, calls, verdicts>>

InAttempts == epc = "attempts" /\ attempt <= MAX_RETRIES

\* lines 212-223: the generation call raises
AttemptError ==
    /\ InAttempts
    /\ calls' = Put(calls, EmblemKey, Count(calls, EmblemKey) + 1)
    /\ verdicts' = Put(verdicts, EmblemKey, "error")
    /\ last_error' = "generation error"
    /\ IF attempt = MAX_RETRIES
       THEN png_bytes' = NoBytes /\ epc' = "save" /\ attempt' = attempt
       ELSE png_bytes' = png_bytes /\ epc' = epc /\ attempt' = attempt + 1
    /\ UNCHANGED <<MAX_RETRIES, FORCE, DRY_RUN, variant_keys, emblems, emblems0,
                   to_generate, ei>>

\* lines 212-213, 225-234: the call returns bytes, which the OCR rejects or not
AttemptImage(b) ==
    /\ InAttempts
    /\ calls' = Put(calls, EmblemKey, Count(calls, EmblemKey) + 1)
    /\ IF ocr_has_text(b)
       THEN /\ png_bytes' = AfterOcrReject(b)
            /\ last_error' = "OCR detected text"
            /\ verdicts' = Put(verdicts, EmblemKey, "rejected")
            /\ attempt' = attempt + 1
            /\ epc' = epc
       ELSE /\ png_bytes' = b
            /\ last_error' = last_error
            /\ verdicts' = Put(verdicts, EmblemKey, "passed")
            /\ attempt' = attempt
            /\ epc' = "save"
    /\ UNCHANGED <<MAX_RETRIES, FORCE, DRY_RUN, variant_keys, emblems, emblems0,
                   to_generate, ei>>

\* line 210: range(1, MAX_RETRIES + 1) is exhausted
AttemptsExhausted ==
    /\ epc = "attempts"
    /\ attempt > MAX_RETRIES
    /\ epc' = "save"
    /\ UNCHANGED <<MAX_RETRIES, FORCE, DRY_RUN, variant_keys, emblems, emblems0,
                   to_generate, ei, attempt, png_bytes, last_error, calls,
                   verdicts>>

\* lines 197, 207-208: the next key, or the end of the main loop
NextKey ==
    /\ ei' = ei + 1
    /\ attempt' = 1
    /\ png_bytes' = NoBytes
    /\ last_error' = "none"
    /\ epc' = IF ei = Len(to_generate) THEN "done" ELSE "attempts"

\* lines 236-239: no image is held, the variant is skipped
SkipVariant ==
    /\ epc = "save"
    /\ png_bytes = NoBytes
    /\ NextKey
    /\ UNCHANGED <<MAX_RETRIES, FORCE, DRY_RUN, variant_keys, emblems, emblems0,
                   to_generate, calls, verdicts>>

\* lines 242-247: the bytes cannot be opened as an image
SkipUndecodable ==
    /\ epc = "save"
    /\ png_bytes = NotAnImage
    /\ NextKey
    /\ UNCHANGED <<MAX_RETRIES, FORCE, DRY_RUN, variant_keys, emblems, emblems0,
                   to_generate, calls, verdicts>>

\* lines 242-252: the image is downscaled and saved
SaveEmblem ==
    /\ epc = "save"
    /\ png_bytes \notin {NoBytes, NotAnImage}
    /\ emblems' = Put(emblems, EmblemKey, "emblem of " \o png_bytes)
    /\ NextKey
    /\ UNCHANGED <<MAX_RETRIES, FORCE, DRY_RUN, variant_keys, emblems0,
                   to_generate, calls, verdicts>>

\* ---------------------------------------------------------------------------
\* SpecEmblem: one invocation of generate_about_emblem.py on an about.json
\* with up to MaxEmblems variants, some of which have an emblem file
\* ---------------------------------------------------------------------------
InitEmblem ==
    /\ BufIdle
    /\ IdxIdle
    /\ CropIdle
    /\ SceneIdle
    /\ ProcIdle
    /\ MAX_RETRIES \in 0..DEFAULT_RETRIES
    /\ FORCE \in BOOLEAN
    /\ DRY_RUN \in BOOLEAN
    /\ variant_keys \in {[i \in 1..n |-> Str(i)] : n \in 0..MaxEmblems}
    /\ emblems \in UNION {[P -> {"old emblem"}] :
                             P \in SUBSET {Str(i) : i \in 1..Len(variant_keys)}}
    /\ emblems0 = emblems
    /\ to_generate = <<>>
    /\ ei = 1
    /\ attempt = 1
    /\ png_bytes = NoBytes
    /\ last_error = "none"
    /\ epc = "select"
    /\ calls = EmptyMap
    /\ verdicts = EmptyMap

NextEmblem ==
    \/ SelectVariants /\ UNCHANGED <<bufVars, idxVars, cropVars, sceneVars, procVars>>
    \/ AttemptError /\ UNCHANGED <<bufVars, idxVars, cropVars, sceneVars, procVars>>
    \/ \E b \in {TextImage, CleanImage, NotAnImage} :
          AttemptImage(b) /\ UNCHANGED <<bufVars, idxVars, cropVars, sceneVars, procVars>>
    \/ AttemptsExhausted /\ UNCHANGED <<bufVars, idxVars, cropVars, sceneVars, procVars>>
    \/ SkipVariant /\ UNCHANGED <<bufVars, idxVars, cropVars, sceneVars, procVars>>
    \/ SkipUndecodable /\ UNCHANGED <<bufVars, idxVars, cropVars, sceneVars, procVars>>
    \/ SaveEmblem /\ UNCHANGED <<bufVars, idxVars, cropVars, sceneVars, procVars>>

SpecEmblem == InitEmblem /\ [][NextEmblem]_vars

\* ---------------------------------------------------------------------------
\* Claims about generate_about_emblem.py
\* ---------------------------------------------------------------------------
\* the emblem file of key k was written by this invocation
EmblemWritten(k) ==
    /\ k \in DOMAIN emblems
    /\ k \in DOMAIN emblems0 => emblems[k] # emblems0[k]

\* the last attempt for key k produced an image that passed the OCR gate
LastAttemptPassed(k) == k \in DOMAIN verdicts /\ verdicts[k] = "passed"

ToGenerate == {to_generate[i] : i \in 1..Len(to_generate)}

\* C19: for every variant at most MAX_RETRIES generation calls are made; an
\* emblem file is written only for a variant whose last attempt passed the OCR
\* gate, and it holds that image; at the end of a run every selected variant
\* either passed at its last attempt or used all MAX_RETRIES attempts, and in
\* the second case no file was written for it.
C19_BoundedOcrRetries ==
    /\ \A k \in DOMAIN calls : calls[k] <= MAX_RETRIES
    /\ \A k \in DOMAIN emblems :
          EmblemWritten(k) => /\ LastAttemptPassed(k)
                              /\ emblems[k] = "emblem of " \o CleanImage
    /\ (epc = "done" /\ ~DRY_RUN)
       => \A k \in ToGenerate :
             \/ LastAttemptPassed(k)
             \/ Count(calls, k) = MAX_RETRIES /\ ~EmblemWritten(k)

\* a run with two variants to generate has ended: every attempt for the first
\* was rejected by the OCR and it has no file, the second has its emblem
C19_Witness ==
    /\ epc = "done"
    /\ to_generate = <<"1", "2">>
    /\ MAX_RETRIES >= 2
    /\ verdicts = [k \in {"1", "2"} |-> IF k = "1" THEN "rejected" ELSE "passed"]
    /\ calls["1"] = MAX_RETRIES
    /\ "1" \notin DOMAIN emblems
    /\ EmblemWritten("2")

\* ---------------------------------------------------------------------------
\* More claims about process_scene
\* ---------------------------------------------------------------------------
\* the place of a type in the processing order
PhaseOf(t) ==
    IF t = "generate" THEN 1
    ELSE IF t = "master" THEN 2
    ELSE IF t = "crop" THEN 3
    ELSE IF t = "resize" THEN 4
    ELSE 5

\* the position of variant v in the scene's declaration
DeclPos(v) == CHOOSE k \in 1..Len(scene.variants) : scene.variants[k] = v

InProcessScene == ppc = "loop" \/ (ppc = "done" /\ args_process)

\* C22: process_scene goes through the scene's variants, each once, in the
\* order generate, master, crop, resize, other types, variants of one type in
\* declaration order; so when a crop or resize variant has been handled every
\* generate variant of the scene has been handled before.
C22_ProcessingOrder ==
    InProcessScene
    => /\ Len(variants_sorted) = Len(scene.variants)
       /\ {variants_sorted[i] : i \in 1..Len(variants_sorted)}
            = {scene.variants[i] : i \in 1..Len(scene.variants)}
       /\ \A i, j \in 1..Len(variants_sorted) :
             i < j => \/ PhaseOf(variants_sorted[i].type) < PhaseOf(variants_sorted[j].type)
                      \/ /\ PhaseOf(variants_sorted[i].type) = PhaseOf(variants_sorted[j].type)
                         /\ DeclPos(variants_sorted[i]) < DeclPos(variants_sorted[j])
       /\ (\E v \in Attempted : v.type \in {"crop", "resize"})
          => \A i \in 1..Len(scene.variants) :
                scene.variants[i].type = "generate" => scene.variants[i] \in Attempted

\* process_scene has returned on a scene declared as crop, generate, master,
\* resize: it went through generate, master, crop, resize and wrote the crop
C22_Witness ==
    /\ ppc = "done"
    /\ args_process
    /\ scene.variants = <<CropVar, GenSmall, MasterCopy, ResizeVar>>
    /\ variants_sorted = <<GenSmall, MasterCopy, CropVar, ResizeVar>>
    /\ OutPath(scene.key, CropVar) \in WrittenPaths

\* the scene's master file can be opened
MasterOpenable == scene.master \in DOMAIN fs /\ Openable(fs[scene.master])

\* the declared positions of the generate variants whose output can be opened
OpenableGenerated ==
    {i \in 1..Len(scene.variants) :
        /\ scene.variants[i].type = "generate"
        /\ OutPath(scene.key, scene.variants[i]) \in DOMAIN fs
        /\ Openable(fs[OutPath(scene.key, scene.variants[i])])}

\* the source a crop or resize variant is to be derived from: the master
\* image, else the first generated output in declaration order, else none
SourceByRule ==
    IF MasterOpenable THEN fs[scene.master]
    ELSE IF OpenableGenerated = {} THEN NoImage
    ELSE fs[OutPath(scene.key,
                    scene.variants[CHOOSE i \in OpenableGenerated :
                                      \A j \in OpenableGenerated : i <= j])]

\* what variant v makes of the source image src
DerivedImage(v, src) ==
    LET tw == IF "width" \in DOMAIN v THEN v.width ELSE src.w
        th == IF "height" \in DOMAIN v THEN v.height ELSE src.h
    IN  IF v.type = "crop" THEN crop_center_to_aspect(src, tw, th, TRUE)
                           ELSE resize_to(src, tw, th)

\* C23: a crop or resize variant that process_scene has handled was derived
\* from the master image if that can be opened, else from the first generate
\* output in declaration order that can be opened; if there is neither, it
\* wrote nothing and is not in produced; in every case process_scene goes on
\* to the end of the scene.
C23_SourceResolution ==
    InProcessScene
    => /\ \A v \in Attempted :
             v.type \in {"crop", "resize"}
             => IF SourceByRule = NoImage
                THEN /\ v.id \notin ProducedIds(produced)
                     /\ Untouched(OutPath(scene.key, v))
                ELSE /\ v.id \in ProducedIds(produced)
                     /\ OutPath(scene.key, v) \in WrittenPaths
                     /\ fs[OutPath(scene.key, v)] = DerivedImage(v, SourceByRule)
       /\ ppc = "done"
          => Attempted = {scene.variants[i] : i \in 1..Len(scene.variants)}

\* ---------------------------------------------------------------------------
\* More claims about prepare_scenes
\* ---------------------------------------------------------------------------
\* two variant lists declare the same set of compared specs in another order
Reordered(l1, l2) ==
    /\ Len(l1) = Len(l2)
    /\ {NormList(l1)[i] : i \in 1..Len(l1)} = {NormList(l2)[i] : i \in 1..Len(l2)}
    /\ NormList(l1) # NormList(l2)

\* scene i is the first scene of images.json that differs from the first
\* scene, and it differs in the order of its variants only
FirstReordered(i) ==
    /\ i \in 2..NumScenes
    /\ Reordered(ResolvedIn(i), ResolvedIn(1))
    /\ \A j \in 2..(i - 1) : NormList(ResolvedIn(j)) = NormList(ResolvedIn(1))

\* C24: the comparison with the first scene is positional. When the first
\* scene that differs from the first one declares the same specs in another
\* order, a run without auto-sync ends at that scene with the mismatch error,
\* and a run with auto-sync returns with that scene's list overwritten by the
\* first scene's list.
C24_ReorderIsMismatch ==
    AllInlineUniqueIds
    => \A i \in 1..NumScenes :
          FirstReordered(i)
          => /\ (~auto_sync /\ Ended)
                => (spc = "exit" /\ error = "mismatch" /\ si = i)
             /\ (auto_sync /\ Returned)
                => SceneVariants(heap, cfg.scenes[i]) = ResolvedIn(1)

\* a run with auto-sync returned after overwriting the second scene's
\* reordered list with the first scene's
C24_Witness ==
    /\ Returned
    /\ auto_sync
    /\ NumScenes >= 2
    /\ config.scenes[1].variants = [kind |-> "list", items |-> <<VarA, VarB>>]
    /\ config.scenes[2].variants = [kind |-> "list", items |-> <<VarB, VarA>>]
    /\ SceneVariants(heap, cfg.scenes[2]) = <<VarA, VarB>>

\* ---------------------------------------------------------------------------
\* regenerate_images.py: the crop box of crop_center_to_aspect
\* ---------------------------------------------------------------------------
MaxSide == 4

\* sides beyond MaxSide the calls are also made with
ExtraSides == {7, 100, 200}
Sides == (1..MaxSide) \cup ExtraSides

\* The <<x, target_w, target_h>> for which x / (target_w / target_h), computed
\* in double precision, falls just below the integer it equals exactly, so
\* that int() gives one less: 7 / (7 / 100) is 99.99999999999999. No other
\* quotient and no product x * (target_w / target_h) of sides up to 8, 100
\* and 200 truncates to anything but the floor of the exact value.
QuotientFallsShort == {<<7, 7, 100>>, <<7, 7, 200>>}

\* line 85: int(src_h * tgt_aspect)
IntOfProduct(x, target_w, target_h) == (x * target_w) \div target_h

\* line 89: int(src_w / tgt_aspect)
IntOfQuotient(x, target_w, target_h) ==
    ((x * target_h) \div target_w)
    - (IF <<x, target_w, target_h>> \in QuotientFallsShort THEN 1 ELSE 0)

\* line 83: src_aspect > tgt_aspect
RelativelyWider(src_w, src_h, target_w, target_h) ==
    src_w * target_h > target_w * src_h

\* A mutant of CropBox: centered is ignored, the box starts at the origin
CropBoxAnchored(src_w, src_h, target_w, target_h, centered) ==
    LET wider == RelativelyWider(src_w, src_h, target_w, target_h)
        new_w == IF wider THEN IntOfProduct(src_h, target_w, target_h) ELSE src_w
        new_h == IF wider THEN src_h ELSE IntOfQuotient(src_w, target_w, target_h)
    IN  [left |-> 0, upper |-> 0, right |-> new_w, lower |-> new_h]

\* lines 83-92: the box handed to img.crop
CropBox(src_w, src_h, target_w, target_h, centered) ==
    LET wider == RelativelyWider(src_w, src_h, target_w, target_h)
        new_w == IF wider THEN IntOfProduct(src_h, target_w, target_h) ELSE src_w
        new_h == IF wider THEN src_h ELSE IntOfQuotient(src_w, target_w, target_h)
        left  == IF centered THEN (src_w - new_w) \div 2 ELSE 0
        upper == IF centered THEN (src_h - new_h) \div 2 ELSE 0
    IN  [left |-> left, upper |-> upper,
         right |-> left + new_w, lower |-> upper + new_h]

EmptyBox(b) == b.right <= b.left \/ b.lower <= b.upper

\* lines 93-94: img.crop(box).resize(target). Pillow resamples a non-empty
\* crop to the target size; what it does with an empty crop is not fixed by
\* this code: an image of the target size or an exception.
ResizeOutcomes(b) == IF EmptyBox(b) THEN {"image", "error"} ELSE {"image"}

InitCrop ==
    /\ BufIdle
    /\ IdxIdle
    /\ SceneIdle
    /\ ProcIdle
    /\ EmblemIdle
    /\ crop_in \in Sides \X Sides \X Sides \X Sides \X BOOLEAN
    /\ crop_out = NoCrop

\* lines 66-96: one call of crop_center_to_aspect
ApplyCrop ==
    /\ ~crop_out.done
    /\ LET src_w == crop_in[1]
           src_h == crop_in[2]
           target_w == crop_in[3]
           target_h == crop_in[4]
           img == crop_center_to_aspect([w |-> src_w, h |-> src_h, px |-> "src"],
                                        target_w, target_h, crop_in[5])
       IN  IF src_w = target_w /\ src_h = target_h
           THEN crop_out' = [done |-> TRUE, copied |-> TRUE, box |-> NoBox,
                             result |-> "image", w |-> img.w, h |-> img.h]
           ELSE \E r \in ResizeOutcomes(CropBox(src_w, src_h, target_w, target_h,
                                                 crop_in[5])) :
                    crop_out' = [done |-> TRUE, copied |-> FALSE,
                                 box |-> CropBox(src_w, src_h, target_w, target_h,
                                                 crop_in[5]),
                                 result |-> r,
                                 w |-> IF r = "image" THEN img.w ELSE 0,
                                 h |-> IF r = "image" THEN img.h ELSE 0]
    /\ UNCHANGED <<crop_in, bufVars, idxVars, sceneVars, procVars, emblemVars>>

NextCrop == ApplyCrop

SpecCrop == InitCrop /\ [][NextCrop]_vars

\* ---------------------------------------------------------------------------
\* Claims about crop_center_to_aspect
\* ---------------------------------------------------------------------------
\* C25: for every source size and every target size of at least 1x1, the call
\* returns an image of exactly the target size, and the crop box it computes
\* is non-empty and inside the source: 0 <= left < right <= src_w and
\* 0 <= upper < lower <= src_h.
C25_CropBoxWithinSource ==
    crop_out.done
    => /\ crop_out.result = "image"
       /\ crop_out.w = crop_in[3]
       /\ crop_out.h = crop_in[4]
       /\ ~crop_out.copied
          => /\ 0 <= crop_out.box.left
             /\ crop_out.box.left < crop_out.box.right
             /\ crop_out.box.right <= crop_in[1]
             /\ 0 <= crop_out.box.upper
             /\ crop_out.box.upper < crop_out.box.lower
             /\ crop_out.box.lower <= crop_in[2]

Abs(n) == IF n < 0 THEN 0 - n ELSE n

\* C26: a source relatively wider than the target keeps its full height and
\* loses width; a centered crop leaves margins that differ by at most one
\* pixel on opposite sides (a 200x100 source cropped to 1:1 keeps columns
\* 50..150, 100 wide); a crop that is not centered starts at the origin.
C26_CropPlacement ==
    (crop_out.done /\ ~crop_out.copied)
    => LET b == crop_out.box
           src_w == crop_in[1]
           src_h == crop_in[2]
       IN  /\ RelativelyWider(src_w, src_h, crop_in[3], crop_in[4])
              => /\ b.upper = 0
                 /\ b.lower = src_h
                 /\ b.right - b.left < src_w
           /\ crop_in[5]
              => /\ Abs(b.left - (src_w - b.right)) <= 1
                 /\ Abs(b.upper - (src_h - b.lower)) <= 1
           /\ (crop_in[5] /\ src_w = 200 /\ src_h = 100 /\ crop_in[3] = crop_in[4])
              => b = [left |-> 50, upper |-> 0, right |-> 150, lower |-> 100]
           /\ ~crop_in[5] => (b.left = 0 /\ b.upper = 0)

\* the 200x100 source cropped to a square, centered
C26_Witness ==
    /\ crop_out.done
    /\ crop_in = <<200, 100, 100, 100, TRUE>>
    /\ crop_out.box = [left |-> 50, upper |-> 0, right |-> 150, lower |-> 100]
    /\ crop_out.w = 100
    /\ crop_out.h = 100

\* ---------------------------------------------------------------------------
\* More claims about the rolling buffer
\* ---------------------------------------------------------------------------
\* C27: a finished run that found current_count >= MAX_VARIANTS keys, exactly
\* the keys 1..current_count, persists the same key set; a record that
\* differs from the one the run found has a key in 1..MAX_VARIANTS, and the
\* record of every key next_variant_indexes did not return is the one found.
C27_WrapRunFrame ==
    (/\ pc = "done"
     /\ current_count >= MAX_VARIANTS
     /\ DOMAIN LoadBuffer(snapshot[page]) = KeysUpTo(current_count))
    => LET old == LoadBuffer(snapshot[page])
           new == Persisted(page)
       IN  /\ DOMAIN new = DOMAIN old
           /\ \A k \in DOMAIN old \cap DOMAIN new :
                 /\ new[k] # old[k] => k \in KeysUpTo(MAX_VARIANTS)
                 /\ k \notin WrittenKeys => new[k] = old[k]

\* a run that found MAX_VARIANTS + 1 keys has rewritten key 2 and left keys 1
\* and MAX_VARIANTS + 1 as they were
C27_Witness ==
    /\ pc = "done"
    /\ current_count = MAX_VARIANTS + 1
    /\ NUM_NEW = NumSmall
    /\ DOMAIN Persisted(page) = KeysUpTo(MAX_VARIANTS + 1)
    /\ Persisted(page)["2"] # LoadBuffer(snapshot[page])["2"]
    /\ Persisted(page)["1"] = LoadBuffer(snapshot[page])["1"]
    /\ Persisted(page)[Str(MAX_VARIANTS + 1)]
          = LoadBuffer(snapshot[page])[Str(MAX_VARIANTS + 1)]

\* the run under way has persisted its new variants of page q: the file is
\* whole and holds, under every key planned for q, the texts of this run
RunPersisted(q) ==
    /\ file[q].kind = "json"
    /\ LET keys == next_variant_indexes(
                       Cardinality(DOMAIN LoadBuffer(snapshot[q])),
                       MAX_VARIANTS, NUM_NEW)
       IN  \A j \in 1..Len(keys) :
              /\ Str(keys[j]) \in DOMAIN Persisted(q)
              /\ \A i \in 1..Len(prompts_by_page[q]) :
                    LET pr == prompts_by_page[q][i]
                    IN  /\ pr.public_json_key \in DOMAIN Persisted(q)[Str(keys[j])]
                        /\ Persisted(q)[Str(keys[j])][pr.public_json_key]
                              = Completion(seed, Str(keys[j]), PromptId(pr))

\* a run for all pages is at its second page, or past it
AtSecondPage == page = "hero" /\ target_pages = <<"products">>
PastLastPage == page = "products"

\* one step of the run touches only the file of the page it is at, reads a
\* page's buffer from that page's file, and leaves a page only persisted
PageStep ==
    /\ \A q \in Pages : file'[q] # file[q] => (q = page /\ page' = page)
    /\ (page' \in Pages /\ page' # page) => existing' = LoadBuffer(file[page'])
    /\ (page \in Pages /\ page' # page /\ page' # "none")
       => file[page] = JsonFile(existing)

\* C28: pages are independent and persisted one after another. Every step
\* changes no file but that of the page being processed and loads a page's
\* buffer from that page's own file; the next page is begun only when the
\* buffer of the page before is written; so while a run for all pages is at
\* its second page, whether alive or terminated there, the first page's file
\* holds the variants of this run, and past the last page both files do.
C28_PagesIndependent ==
    /\ [](AtSecondPage => RunPersisted("about"))
    /\ [](PastLastPage => (RunPersisted("about") /\ RunPersisted("hero")))
    /\ [][PageStep]_vars

\* a run for all pages was terminated while generating for the second page:
\* the first page's variants are on disk, the second page's file is as found
C28_Witness ==
    /\ ~alive
    /\ pc = "gen"
    /\ AtSecondPage
    /\ vi > 1
    /\ RunPersisted("about")
    /\ file["about"] # snapshot["about"]
    /\ file["hero"] = snapshot["hero"]

\* the variants of the scene of the given types whose output file the
\* invocation found
FoundOutputs(types) ==
    {v \in {scene.variants[i] : i \in 1..Len(scene.variants)} :
        v.type \in types /\ OutPath(scene.key, v) \in DOMAIN fs0}

\* C29: without force, the output file found for a generate or master variant
\* stays as found; a crop or resize variant that process_scene has handled
\* and that has a source has written its output, with or without force and
\* whether or not the file was there.
C29_SkipOnlyGenerateAndMaster ==
    /\ ~force => \A v \in FoundOutputs({"generate", "master"}) :
                    Untouched(OutPath(scene.key, v))
    /\ InProcessScene
       => \A v \in Attempted :
             (v.type \in {"crop", "resize"}
              /\ ResolveSource(master_img, produced, fs) # NoImage)
             => /\ OutPath(scene.key, v) \in WrittenPaths
                /\ fs[OutPath(scene.key, v)]
                     = DerivedImage(v, ResolveSource(master_img, produced, fs))

\* a process run without force found the outputs of a generate and of a crop
\* variant: the first is as found, the second rewritten from the master
C29_Witness ==
    /\ ppc = "done"
    /\ args_process
    /\ ~force
    /\ GenSmall \in FoundOutputs({"generate"})
    /\ CropVar \in FoundOutputs({"crop"})
    /\ fs0[OutPath(scene.key, CropVar)] = OldImage
    /\ Untouched(OutPath(scene.key, GenSmall))
    /\ OutPath(scene.key, CropVar) \in WrittenPaths
    /\ fs[OutPath(scene.key, CropVar)] = DerivedImage(CropVar, MasterImage)

====
